---- MODULE Spec2Model ----
(***************************************************************************)
(* Model of the Notez coordinator (background service worker), its two     *)
(* note stores (json-server remote, chrome.storage.local fallback) and the *)
(* clients that send it messages.                                          *)
(*                                                                         *)
(* Text is a sequence of one-character strings; the fixed markup of the    *)
(* templates is kept as multi-character tokens, so a raw "<" that reaches  *)
(* a note's content from page data is visible as the element "<".          *)
(***************************************************************************)
EXTENDS Integers, Sequences, FiniteSets, TLC

VARIABLES
  remote,    \* json-server collection /notes: sequence of notes, insertion order
  local,     \* chrome.storage.local record "notes": sequence of notes
  reqs,      \* messages received by the coordinator, in arrival order, with handler state
  replies,   \* replies[i]: sequence of the sendResponse calls made for reqs[i]
  clock,     \* Date.now(), non-decreasing
  nextId,    \* generateId(): next fresh id
  wcount,    \* number of store writes performed so far (write order)
  escIn,     \* input of escapeHtml (escape specification)
  escOut,    \* result of escapeHtml (escape specification)
  escDone,   \* whether escapeHtml has been applied to escIn
  install,   \* initializeStorage: its position, and the stored isInitialized flag
  agent,     \* NotezContentScript of one page: its fields, the page's selection, its timers
  web        \* the web app's useNotesStorage hook of one route, and localStorage

vars == <<remote, local, reqs, replies, clock, nextId, wcount, escIn, escOut, escDone,
         install, agent, web>>

coordVars == <<remote, local, reqs, replies, clock, nextId, wcount, install>>

escVars == <<escIn, escOut, escDone>>

----------------------------------------------------------------------------
(* Bounds *)

MaxReq == 2

MaxClock == 1

MaxLen == 3

MaxAwait == 2

MaxCalls == 1

----------------------------------------------------------------------------
(* Text helpers *)

RECURSIVE ReplaceFrom(_, _, _, _)
\* the global replace scans s left to right from position k
ReplaceFrom(s, k, c, ent) ==
  IF k > Len(s) THEN <<>>
  ELSE (IF s[k] = c THEN ent ELSE <<s[k]>>) \o ReplaceFrom(s, k + 1, c, ent)

\* String.prototype.replace(/c/g, ent); the receiver is evaluated once
ReplaceAll(s, c, ent) ==
  CHOOSE out \in {ReplaceFrom(v, 1, c, ent) : v \in {s}} : TRUE

AMP == <<"&", "a", "m", "p", ";">>

LT == <<"&", "l", "t", ";">>

GT == <<"&", "g", "t", ";">>

QUOT == <<"&", "q", "u", "o", "t", ";">>

APOS == <<"&", "#", "0", "3", "9", ";">>

Entities == {AMP, LT, GT, QUOT, APOS}

\* a variant that escapes "&" after the other characters
escapeHtmlAmpLast(text) ==
  ReplaceAll(ReplaceAll(ReplaceAll(ReplaceAll(ReplaceAll(text,
    "<", LT), ">", GT), "\"", QUOT), "'", APOS), "&", AMP)

escapeHtml(text) ==
  ReplaceAll(ReplaceAll(ReplaceAll(ReplaceAll(ReplaceAll(text,
    "&", AMP), "<", LT), ">", GT), "\"", QUOT), "'", APOS)

\* what the DOM does for div.textContent = text; div.innerHTML (popup)
escapeHtmlDom(text) ==
  ReplaceAll(ReplaceAll(ReplaceAll(text, "&", AMP), "<", LT), ">", GT)

\* s occurs in t as a contiguous run starting at position i
OccursAt(s, t, i) ==
  /\ i >= 1
  /\ i + Len(s) - 1 <= Len(t)
  /\ SubSeq(t, i, i + Len(s) - 1) = s

Contains(t, s) == \E i \in 1..(Len(t) + 1) : OccursAt(s, t, i)

\* no raw markup character, and every "&" starts an entity
IsEscapedText(t) ==
  /\ \A i \in 1..Len(t) : t[i] \notin {"<", ">", "\""}
  /\ \A i \in 1..Len(t) : t[i] = "&" => \E e \in Entities : OccursAt(e, t, i)

----------------------------------------------------------------------------
(* Notes *)

Has(n, f) == f \in DOMAIN n

\* { ...n, f: v }
With(n, f, v) == (f :> v) @@ n

Ids(ns) == {ns[k].id : k \in 1..Len(ns)}

IndexOf(ns, id) == CHOOSE k \in 1..Len(ns) : ns[k].id = id

\* Array.prototype.filter, keeping the elements whose index is in keep
SelectIdx(ns, keep) ==
  LET F[k \in 0..Len(ns)] ==
        IF k = 0 THEN <<>>
        ELSE IF k \in keep THEN Append(F[k - 1], ns[k]) ELSE F[k - 1]
  IN  F[Len(ns)]

\* notes.filter(note => note.id !== noteId)
WithoutId(ns, id) == SelectIdx(ns, {k \in 1..Len(ns) : ns[k].id # id})

RECURSIVE InsertDesc(_, _)
\* insert n after every element whose updatedAt is >= n's (stable, descending)
InsertDesc(n, sorted) ==
  IF sorted = <<>> THEN <<n>>
  ELSE IF Head(sorted).updatedAt >= n.updatedAt
       THEN <<Head(sorted)>> \o InsertDesc(n, Tail(sorted))
       ELSE <<n>> \o sorted

RECURSIVE SortDesc(_)
\* ?_sort=updatedAt&_order=desc
SortDesc(ns) ==
  IF ns = <<>> THEN <<>>
  ELSE InsertDesc(ns[Len(ns)], SortDesc(SubSeq(ns, 1, Len(ns) - 1)))

\* new Date().toLocaleString() / toISOString() rendered into markup
TimeStr(t) == <<"t0", "t1", "t2", "t3", "t4", "t5", "t6", "t7", "t8", "t9">>[t + 1]

TagsInclude(n, tag) ==
  /\ Has(n, "tags")
  /\ \E k \in 1..Len(n.tags) : n.tags[k] = tag

\* the predicate of notes.find(...) in handleAddSelectionToPageNote
IsPageNote(n, url) ==
  /\ Has(n, "source")
  /\ n.source.url = url
  /\ TagsInclude(n, "web-page")

\* Array.prototype.find: the first match, as a sequence of length 0 or 1
FindPageNote(ns, url) ==
  LET hits == {k \in 1..Len(ns) : IsPageNote(ns[k], url)}
  IN  IF hits = {} THEN <<>> ELSE <<ns[CHOOSE k \in hits : \A j \in hits : k <= j]>>

\* the search predicate; queries are whole tag names
Matches(n, q) == TagsInclude(n, q)

\* notes.filter(note => ...includes(lowercaseQuery)...)
Search(ns, q) == SelectIdx(ns, {k \in 1..Len(ns) : Matches(ns[k], q)})

----------------------------------------------------------------------------
(* Pages, selections and message payloads *)

Pages ==
  << [url |-> <<"u">>, title |-> <<"<", "T">>, domain |-> "example.com"],
     [url |-> <<"v", "&">>, title |-> <<"S">>, domain |-> "other.org"] >>

Texts == { <<"a">>, <<"<", "&">> }

QuoteBlock(text) ==
  <<"<blockquote>\"">> \o escapeHtml(text) \o <<"\"</blockquote>">>

selectionHtml(text, now) ==
  <<"<hr><h3>Selected Text (", TimeStr(now), ")</h3>">>
    \o QuoteBlock(text)
    \o <<"<p><em>Add your notes about this selection...</em></p>">>

\* a variant that tags the note with the domain only
newNoteDomainTag(id, page, text, now) ==
  [ id |-> id,
    title |-> <<"Page Notes: ">> \o escapeHtml(page.title),
    content |-> <<"<h1>">> \o escapeHtml(page.title)
                \o <<"</h1><p><strong>URL:</strong> <a href=\"">> \o escapeHtml(page.url)
                \o <<"\" target=\"_blank\">">> \o escapeHtml(page.url)
                \o <<"</a></p><p></p><p>Add your main page notes here...</p>">>
                \o selectionHtml(text, now),
    createdAt |-> now,
    updatedAt |-> now,
    tags |-> <<page.domain>>,
    source |-> [url |-> page.url, title |-> page.title, domain |-> page.domain,
                capturedAt |-> now] ]

newNote(id, page, text, now) ==
  [ id |-> id,
    title |-> <<"Page Notes: ">> \o escapeHtml(page.title),
    content |-> <<"<h1>">> \o escapeHtml(page.title)
                \o <<"</h1><p><strong>URL:</strong> <a href=\"">> \o escapeHtml(page.url)
                \o <<"\" target=\"_blank\">">> \o escapeHtml(page.url)
                \o <<"</a></p><p></p><p>Add your main page notes here...</p>">>
                \o selectionHtml(text, now),
    createdAt |-> now,
    updatedAt |-> now,
    tags |-> <<"web-page", page.domain>>,
    source |-> [url |-> page.url, title |-> page.title, domain |-> page.domain,
                capturedAt |-> now] ]

\* a variant that appends nothing
updatedNoteNoAppend(existing, text, now) ==
  With(existing, "updatedAt", now)

updatedNote(existing, text, now) ==
  With(With(existing, "content", existing.content \o selectionHtml(text, now)),
       "updatedAt", now)

\* popup: createPageBasedNote, saved by savePageNote
createPageBasedNote(page, now) ==
  [ title |-> <<"Notes: ">> \o page.title,
    content |-> <<"<h1>">> \o page.title
                \o <<"</h1><p><strong>URL:</strong> <a href=\"">> \o page.url
                \o <<"\">">> \o page.url
                \o <<"</a></p><p></p><p>Add your notes here...</p>">>,
    tags |-> <<"web-page", page.domain>>,
    source |-> [url |-> page.url, title |-> page.title, domain |-> page.domain,
                capturedAt |-> now] ]

\* popup: capturePage
capturePage(page, now) ==
  [ title |-> <<"Captured: ">> \o page.title,
    content |-> <<"<h2>">> \o escapeHtmlDom(page.title)
                \o <<"</h2><p><strong>URL:</strong> <a href=\"">> \o escapeHtmlDom(page.url)
                \o <<"\" target=\"_blank\">">> \o escapeHtmlDom(page.url)
                \o <<"</a></p><p><strong>Captured on:</strong> ", TimeStr(now),
                     "</p><hr><p><em>Add your notes about this page here...</em></p>">>,
    tags |-> <<"captured", "page">>,
    source |-> [url |-> page.url, title |-> page.title, type |-> "web"] ]

\* content script: saveQuickNote (title and content typed by the user)
saveQuickNote(page) ==
  [ title |-> <<"Q">>,
    content |-> <<"q">>,
    tags |-> <<>>,
    source |-> [url |-> page.url, title |-> page.title, type |-> "web"] ]

\* an edit sent with UPDATE_NOTE: the edited fields only
EditData == [title |-> <<"E">>, content |-> <<"e">>]

\* a note that carries its own timestamps, written where the clock is ahead
datedNote(now) ==
  [ title |-> <<"D">>, content |-> <<"d">>, tags |-> <<>>,
    createdAt |-> now + 1, updatedAt |-> now + 1 ]

\* an edit whose data carries an id other than the one the request names
EditDataOtherId(id) == With(EditData, "id", id + 1)

Msg(type, page, text, data, noteId, query) ==
  [type |-> type, page |-> page, text |-> text, data |-> data,
   noteId |-> noteId, query |-> query]

KnownTypes ==
  {"SAVE_NOTE", "UPDATE_NOTE", "ADD_SELECTION_TO_PAGE_NOTE", "GET_NOTES",
   "DELETE_NOTE", "SEARCH_NOTES", "CHECK_URL_ENABLED"}

\* the request types the specification enumerates
EnumeratedTypes == KnownTypes \cup {"SETTINGS_UPDATED"}

OtherTypes == {"SETTINGS_UPDATED", "NOTEZ_PING"}

\* the ids a client can name: those generateId has handed out so far
NoteIds == 1..(nextId - 1)

\* captures: both selections on the first page, one on the second
CaptureMessages ==
  {Msg("ADD_SELECTION_TO_PAGE_NOTE", 1, t, <<>>, 0, "") : t \in Texts}
  \cup {Msg("ADD_SELECTION_TO_PAGE_NOTE", 2, <<"a">>, <<>>, 0, "")}

\* writes with every shape of payload: with and without an id, with and
\* without timestamps of their own, and one capture
WriteMessages(now) ==
  {Msg("SAVE_NOTE", 1, <<>>, <<datedNote(now)>>, 0, ""),
   Msg("ADD_SELECTION_TO_PAGE_NOTE", 1, <<"a">>, <<>>, 0, "")}
  \cup {Msg("SAVE_NOTE", 1, <<>>, <<With(datedNote(now), "id", id)>>, 0, "") : id \in NoteIds}
  \cup {Msg("UPDATE_NOTE", 0, <<>>, <<EditData>>, id, "") : id \in NoteIds}
  \cup {Msg("UPDATE_NOTE", 0, <<>>, <<EditDataOtherId(id)>>, id, "") : id \in NoteIds}

Messages(now) ==
  CaptureMessages
  \cup {Msg("SAVE_NOTE", 1, <<>>, <<createPageBasedNote(Pages[1], now)>>, 0, ""),
        Msg("SAVE_NOTE", 1, <<>>, <<capturePage(Pages[1], now)>>, 0, ""),
        Msg("SAVE_NOTE", 1, <<>>, <<saveQuickNote(Pages[1])>>, 0, "")}
  \cup {Msg("UPDATE_NOTE", 0, <<>>, <<EditData>>, id, "") : id \in NoteIds}
  \cup {Msg("DELETE_NOTE", 0, <<>>, <<>>, id, "") : id \in NoteIds}
  \cup {Msg("GET_NOTES", 0, <<>>, <<>>, 0, ""),
        Msg("SEARCH_NOTES", 0, <<>>, <<>>, 0, "web-page"),
        Msg("CHECK_URL_ENABLED", 1, <<>>, <<>>, 0, "")}
  \cup {Msg(t, 0, <<>>, <<>>, 0, "") : t \in OtherTypes}

----------------------------------------------------------------------------
(* The coordinator: chrome.runtime.onMessage listener and its handlers.     *)
(* One action is the effect of the awaited call together with the handler's *)
(* code up to its next await.                                               *)

Ok(data) == [success |-> TRUE, data |-> data, error |-> ""]

Err(e) == [success |-> FALSE, data |-> <<>>, error |-> e]

\* a variant of updateNote that lets the id inside the data win: { id, ...data }
updateNoteDataFirst(id, data) == data @@ ("id" :> id)

\* updateNote: the argument it hands to saveNote, { ...updatedNote, id }
updateNote(id, data) == With(data, "id", id)

\* a variant that keeps the updatedAt the caller passed
saveNoteBeginKeepStamp(note, now, fresh) ==
  LET n1 == IF Has(note, "id") THEN note ELSE With(note, "id", fresh)
      n2 == IF Has(n1, "updatedAt") THEN n1 ELSE With(n1, "updatedAt", now)
      n3 == IF Has(n2, "createdAt") THEN n2 ELSE With(n2, "createdAt", now)
  IN  [note |-> n3, method |-> IF Has(note, "id") THEN "PUT" ELSE "POST"]

\* saveNote up to its fetch: the method, the id and the timestamps
saveNoteBegin(note, now, fresh) ==
  LET n1 == IF Has(note, "id") THEN note ELSE With(note, "id", fresh)
      n2 == With(n1, "updatedAt", now)
      n3 == IF Has(n2, "createdAt") THEN n2 ELSE With(n2, "createdAt", now)
  IN  [note |-> n3, method |-> IF Has(note, "id") THEN "PUT" ELSE "POST"]

\* json-server: POST refuses an id it holds, PUT and DELETE refuse an id it lacks
RemoteAccepts(method, id) ==
  IF method = "POST" THEN id \notin Ids(remote) ELSE id \in Ids(remote)

RemoteAfter(method, note) ==
  IF method = "POST" THEN Append(remote, note)
  ELSE [remote EXCEPT ![IndexOf(remote, note.id)] = note]

\* a variant that always adds the note in front
storeNoteAlwaysUnshift(notes, note) == <<note>> \o notes

\* saveNoteToStorage: replace the note with the same id, or add it in front
storeNote(notes, note) ==
  IF note.id \in Ids(notes)
  THEN [notes EXCEPT ![IndexOf(notes, note.id)] = note]
  ELSE <<note>> \o notes

\* saveNoteToStorage between its get and its set: the timestamps
stampForStorage(note, now) ==
  LET n2 == With(note, "updatedAt", now)
  IN  IF Has(n2, "createdAt") THEN n2 ELSE With(n2, "createdAt", now)

\* a variant whose default case starts a handler
HandlerPcNoDefault(type) ==
  CASE type \in {"SAVE_NOTE", "UPDATE_NOTE"} -> "saveNote.fetch"
    [] type \in {"ADD_SELECTION_TO_PAGE_NOTE", "GET_NOTES"} -> "getNotes.fetch"
    [] type = "DELETE_NOTE" -> "deleteNote.fetch"
    [] type = "SEARCH_NOTES" -> "searchNotes.fetch"
    [] type = "CHECK_URL_ENABLED" -> "check.resolved"
    [] OTHER -> "getNotes.fetch"

\* a variant whose save handlers go to the local store at once
HandlerPcLocalFirst(type) ==
  CASE type \in {"SAVE_NOTE", "UPDATE_NOTE"} -> "saveNoteToStorage.get"
    [] type \in {"ADD_SELECTION_TO_PAGE_NOTE", "GET_NOTES"} -> "getNotes.fetch"
    [] type = "DELETE_NOTE" -> "deleteNote.fetch"
    [] type = "SEARCH_NOTES" -> "searchNotes.fetch"
    [] type = "CHECK_URL_ENABLED" -> "check.resolved"
    [] OTHER -> "unknown"

\* the switch of the listener: where the handler of a message type first awaits
HandlerPc(type) ==
  CASE type \in {"SAVE_NOTE", "UPDATE_NOTE"} -> "saveNote.fetch"
    [] type \in {"ADD_SELECTION_TO_PAGE_NOTE", "GET_NOTES"} -> "getNotes.fetch"
    [] type = "DELETE_NOTE" -> "deleteNote.fetch"
    [] type = "SEARCH_NOTES" -> "searchNotes.fetch"
    [] type = "CHECK_URL_ENABLED" -> "check.resolved"
    [] OTHER -> "unknown"

Busy == {j \in 1..Len(reqs) : reqs[j].pc # "done"}

NewReq(m, pc, sv) ==
  [ msg |-> m, pc |-> pc,
    note |-> sv,              \* the note saveNote holds (length 0 or 1)
    method |-> "",            \* the HTTP method saveNote chose
    notes |-> <<>>,           \* the array a storage handler read and will write
    found |-> <<>>,           \* existingNote of handleAddSelectionToPageNote
    lookedUp |-> FALSE,       \* whether notes.find(...) has run
    remoteFailed |-> FALSE,   \* a remote attempt of this request failed
    netDown |-> FALSE,        \* ... because the remote was unreachable
    localUsed |-> FALSE,      \* the local store was read or written
    localFailed |-> FALSE,    \* a local store call threw
    wseq |-> 0,               \* position of this request's write among all writes
    wstore |-> "none",        \* the store that took the write
    overlap |-> Busy # {} ]   \* some other request was in progress meanwhile

\* the message arrives: the listener's switch and the handler up to its first await
\* the listener runs for a message m: the switch, up to the handler's first await
OnMessage(m) ==
  /\ Len(reqs) < MaxReq
  /\ LET pc == HandlerPc(m.type)
         arg == IF m.type = "UPDATE_NOTE" THEN updateNote(m.noteId, m.data[1])
                ELSE IF m.type = "SAVE_NOTE" THEN m.data[1]
                ELSE [none |-> TRUE]
         b == IF pc = "saveNote.fetch" THEN saveNoteBegin(arg, clock, nextId)
              ELSE [note |-> arg, method |-> ""]
         r == [NewReq(m, IF pc = "unknown" THEN "done" ELSE pc,
                      IF pc = "saveNote.fetch" THEN <<b.note>> ELSE <<>>)
                 EXCEPT !.method = b.method]
     IN  /\ reqs' = [j \in 1..(Len(reqs) + 1) |->
                       IF j = Len(reqs) + 1 THEN r
                       ELSE IF j \in Busy THEN [reqs[j] EXCEPT !.overlap = TRUE]
                       ELSE reqs[j]]
         /\ replies' = Append(replies,
                         IF pc = "unknown" THEN <<Err("Unknown message type")>> ELSE <<>>)
         /\ nextId' = IF pc = "saveNote.fetch" /\ ~Has(arg, "id")
                      THEN nextId + 1 ELSE nextId
  /\ UNCHANGED <<remote, local, clock, wcount, escVars, install, web>>

\* a message from a sender whose own state the model does not follow
Receive(m) == OnMessage(m) /\ UNCHANGED agent

At(i, pc) == i \in 1..Len(reqs) /\ reqs[i].pc = pc

\* a variant that never calls sendResponse
FinishSilently(i, r, rep) ==
  /\ reqs' = [reqs EXCEPT ![i] = [r EXCEPT !.pc = "done"]]
  /\ UNCHANGED replies

\* the handler's promise settles: sendResponse is called and the request is over
Finish(i, r, rep) ==
  /\ reqs' = [reqs EXCEPT ![i] = [r EXCEPT !.pc = "done"]]
  /\ replies' = [replies EXCEPT ![i] = Append(@, rep)]

Goto(i, r, pc) ==
  /\ reqs' = [reqs EXCEPT ![i] = [r EXCEPT !.pc = pc]]
  /\ UNCHANGED replies

Wrote(r, store) == [r EXCEPT !.wseq = wcount + 1, !.wstore = store]

RemoteFail(r, net) == [r EXCEPT !.remoteFailed = TRUE, !.netDown = @ \/ net]

\* a variant that also mirrors the saved note into the local store
SaveFetchOkMirror(i) ==
  /\ At(i, "saveNote.fetch")
  /\ LET r == reqs[i] IN
       /\ RemoteAccepts(r.method, r.note[1].id)
       /\ remote' = RemoteAfter(r.method, r.note[1])
       /\ local' = storeNote(local, r.note[1])
       /\ wcount' = wcount + 1
       /\ Finish(i, Wrote(r, "remote"), Ok(r.note))
  /\ UNCHANGED <<clock, nextId, escVars, install, agent, web>>

\* saveNote: the fetch answers 2xx
SaveFetchOk(i) ==
  /\ At(i, "saveNote.fetch")
  /\ LET r == reqs[i] IN
       /\ RemoteAccepts(r.method, r.note[1].id)
       /\ remote' = RemoteAfter(r.method, r.note[1])
       /\ wcount' = wcount + 1
       /\ Finish(i, Wrote(r, "remote"), Ok(r.note))
  /\ UNCHANGED <<local, clock, nextId, escVars, install, agent, web>>

\* saveNote: json-server answers 404 (PUT of an id it lacks) or 500 (POST of one it holds)
SaveFetchReject(i) ==
  /\ At(i, "saveNote.fetch")
  /\ ~RemoteAccepts(reqs[i].method, reqs[i].note[1].id)
  /\ Goto(i, RemoteFail(reqs[i], FALSE), "saveNoteToStorage.get")
  /\ UNCHANGED <<remote, local, clock, nextId, wcount, escVars, install, agent, web>>

\* saveNote: the fetch rejects (remote unreachable)
SaveFetchDown(i) ==
  /\ At(i, "saveNote.fetch")
  /\ Goto(i, RemoteFail(reqs[i], TRUE), "saveNoteToStorage.get")
  /\ UNCHANGED <<remote, local, clock, nextId, wcount, escVars, install, agent, web>>

\* saveNoteToStorage: chrome.storage.local.get resolves
StorageGetOk(i) ==
  /\ At(i, "saveNoteToStorage.get")
  /\ LET r == reqs[i]
         n == stampForStorage(r.note[1], clock)
     IN  Goto(i, [r EXCEPT !.note = <<n>>, !.notes = storeNote(local, n),
                           !.localUsed = TRUE], "saveNoteToStorage.set")
  /\ UNCHANGED <<remote, local, clock, nextId, wcount, escVars, install, agent, web>>

\* saveNoteToStorage: chrome.storage.local.get throws
StorageGetFail(i) ==
  /\ At(i, "saveNoteToStorage.get")
  /\ Finish(i, [reqs[i] EXCEPT !.localFailed = TRUE], Err("storage"))
  /\ UNCHANGED <<remote, local, clock, nextId, wcount, escVars, install, agent, web>>

\* saveNoteToStorage: chrome.storage.local.set resolves
StorageSetOk(i) ==
  /\ At(i, "saveNoteToStorage.set")
  /\ local' = reqs[i].notes
  /\ wcount' = wcount + 1
  /\ Finish(i, Wrote(reqs[i], "local"), Ok(reqs[i].note))
  /\ UNCHANGED <<remote, clock, nextId, escVars, install, agent, web>>

\* saveNoteToStorage: chrome.storage.local.set throws
StorageSetFail(i) ==
  /\ At(i, "saveNoteToStorage.set")
  /\ Finish(i, [reqs[i] EXCEPT !.localFailed = TRUE], Err("storage"))
  /\ UNCHANGED <<remote, local, clock, nextId, wcount, escVars, install, agent, web>>

\* getNotes has returned ns to its caller: the listener, searchNotes's fallback
\* or handleAddSelectionToPageNote, which runs on to saveNote's fetch
AfterGetNotes(i, r, ns) ==
  \/ /\ r.msg.type = "GET_NOTES"
     /\ Finish(i, r, Ok(ns))
     /\ UNCHANGED nextId
  \/ /\ r.msg.type = "SEARCH_NOTES"
     /\ Finish(i, r, Ok(Search(ns, r.msg.query)))
     /\ UNCHANGED nextId
  \/ /\ r.msg.type = "ADD_SELECTION_TO_PAGE_NOTE"
     /\ \E existing \in {FindPageNote(ns, Pages[r.msg.page].url)} :
        \E arg \in {IF existing # <<>>
                     THEN With(updatedNote(existing[1], r.msg.text, clock),
                               "id", existing[1].id)
                     ELSE newNote(nextId, Pages[r.msg.page], r.msg.text, clock)} :
        \E b \in {saveNoteBegin(arg, clock, nextId)} :
          /\ Goto(i, [r EXCEPT !.found = existing, !.lookedUp = TRUE,
                               !.note = <<b.note>>, !.method = b.method],
                  "saveNote.fetch")
          /\ nextId' = IF existing # <<>> THEN nextId ELSE nextId + 1

\* getNotes: the fetch answers 2xx with the list sorted by updatedAt
GetFetchOk(i) ==
  /\ At(i, "getNotes.fetch")
  /\ AfterGetNotes(i, reqs[i], SortDesc(remote))
  /\ UNCHANGED <<remote, local, clock, wcount, escVars, install, agent, web>>

\* getNotes: the fetch rejects or answers non-2xx
GetFetchFail(i) ==
  /\ At(i, "getNotes.fetch")
  /\ Goto(i, RemoteFail(reqs[i], TRUE), "getNotes.get")
  /\ UNCHANGED <<remote, local, clock, nextId, wcount, escVars, install, agent, web>>

\* a variant that reads a key the store does not hold: result.note || []
GetLocalOkEmpty(i) ==
  /\ At(i, "getNotes.get")
  /\ AfterGetNotes(i, [reqs[i] EXCEPT !.localUsed = TRUE], <<>>)
  /\ UNCHANGED <<remote, local, clock, wcount, escVars, install, agent, web>>

\* getNotes: chrome.storage.local.get resolves
GetLocalOk(i) ==
  /\ At(i, "getNotes.get")
  /\ AfterGetNotes(i, [reqs[i] EXCEPT !.localUsed = TRUE], local)
  /\ UNCHANGED <<remote, local, clock, wcount, escVars, install, agent, web>>

\* getNotes: chrome.storage.local.get throws; the catch returns []
GetLocalFail(i) ==
  /\ At(i, "getNotes.get")
  /\ AfterGetNotes(i, [reqs[i] EXCEPT !.localFailed = TRUE], <<>>)
  /\ UNCHANGED <<remote, local, clock, wcount, escVars, install, agent, web>>

\* deleteNote: the fetch answers 2xx
DeleteFetchOk(i) ==
  /\ At(i, "deleteNote.fetch")
  /\ reqs[i].msg.noteId \in Ids(remote)
  /\ remote' = WithoutId(remote, reqs[i].msg.noteId)
  /\ wcount' = wcount + 1
  /\ Finish(i, Wrote(reqs[i], "remote"), Ok(<<>>))
  /\ UNCHANGED <<local, clock, nextId, escVars, install, agent, web>>

\* deleteNote: json-server answers 404 for an id it lacks
DeleteFetchReject(i) ==
  /\ At(i, "deleteNote.fetch")
  /\ reqs[i].msg.noteId \notin Ids(remote)
  /\ Goto(i, RemoteFail(reqs[i], FALSE), "deleteNote.get")
  /\ UNCHANGED <<remote, local, clock, nextId, wcount, escVars, install, agent, web>>

\* deleteNote: the fetch rejects (remote unreachable)
DeleteFetchDown(i) ==
  /\ At(i, "deleteNote.fetch")
  /\ Goto(i, RemoteFail(reqs[i], TRUE), "deleteNote.get")
  /\ UNCHANGED <<remote, local, clock, nextId, wcount, escVars, install, agent, web>>

\* deleteNote: chrome.storage.local.get resolves
DeleteGetOk(i) ==
  /\ At(i, "deleteNote.get")
  /\ Goto(i, [reqs[i] EXCEPT !.notes = WithoutId(local, reqs[i].msg.noteId),
                             !.localUsed = TRUE], "deleteNote.set")
  /\ UNCHANGED <<remote, local, clock, nextId, wcount, escVars, install, agent, web>>

\* deleteNote: chrome.storage.local.get throws
DeleteGetFail(i) ==
  /\ At(i, "deleteNote.get")
  /\ Finish(i, [reqs[i] EXCEPT !.localFailed = TRUE], Err("storage"))
  /\ UNCHANGED <<remote, local, clock, nextId, wcount, escVars, install, agent, web>>

\* deleteNote: chrome.storage.local.set resolves
DeleteSetOk(i) ==
  /\ At(i, "deleteNote.set")
  /\ local' = reqs[i].notes
  /\ wcount' = wcount + 1
  /\ Finish(i, Wrote(reqs[i], "local"), Ok(<<>>))
  /\ UNCHANGED <<remote, clock, nextId, escVars, install, agent, web>>

\* deleteNote: chrome.storage.local.set throws
DeleteSetFail(i) ==
  /\ At(i, "deleteNote.set")
  /\ Finish(i, [reqs[i] EXCEPT !.localFailed = TRUE], Err("storage"))
  /\ UNCHANGED <<remote, local, clock, nextId, wcount, escVars, install, agent, web>>

\* searchNotes: the fetch answers 2xx with the matching notes
SearchFetchOk(i) ==
  /\ At(i, "searchNotes.fetch")
  /\ Finish(i, reqs[i], Ok(Search(SortDesc(remote), reqs[i].msg.query)))
  /\ UNCHANGED <<remote, local, clock, nextId, wcount, escVars, install, agent, web>>

\* searchNotes: the fetch fails; the fallback calls getNotes()
SearchFetchFail(i) ==
  /\ At(i, "searchNotes.fetch")
  /\ Goto(i, RemoteFail(reqs[i], TRUE), "getNotes.fetch")
  /\ UNCHANGED <<remote, local, clock, nextId, wcount, escVars, install, agent, web>>

\* CHECK_URL_ENABLED: Promise.resolve({ enabled: true }) settles
CheckResolve(i) ==
  /\ At(i, "check.resolved")
  /\ Finish(i, reqs[i], Ok(<<[enabled |-> TRUE]>>))
  /\ UNCHANGED <<remote, local, clock, nextId, wcount, escVars, install, agent, web>>

\* time passes
Tick ==
  /\ clock < MaxClock
  /\ clock' = clock + 1
  /\ UNCHANGED <<remote, local, reqs, replies, nextId, wcount, escVars, install, agent, web>>

\* the extension was installed earlier: initializeStorage has run to its end
Installed == [pc |-> "idle", isInitialized |-> TRUE]

\* window.getSelection() with no range
NoSelection == [rangeCount |-> 0, lo |-> 0, hi |-> 0, sized |-> FALSE]

\* the affordance elements in the page: whether the element that
\* this.selectionTooltip refers to is attached, how many hidden elements are
\* still attached, how many 200 ms removal callbacks are pending, and how many
\* elements have been created; only the specification of the page's elements
\* follows them
NoDom == [followed |-> FALSE, attached |-> FALSE, leftover |-> 0, timers |-> 0,
          created |-> 0]

\* the web app right after a route that uses useNotesStorage has mounted:
\* useNotesAPI's state, the loadNotes call of its mount effect in progress,
\* localStorage without a "notez-notes" item, no call of createNote and no
\* note returned by it yet
Mounted ==
  [notes |-> <<>>, error |-> FALSE, load |-> "fetching", fetched |-> <<>>,
   since |-> 0, storage |-> <<>>, create |-> "idle", draft |-> <<>>,
   saves |-> 0, created |-> <<>>, alert |-> FALSE, event |-> "mount"]

\* the content script after its constructor and init() on an enabled url
Loaded ==
  [selectionTooltip |-> FALSE, selectedText |-> <<>>,
   tooltipShowTimeoutId |-> "null", tooltipHideTimeoutId |-> "null",
   selectionRange |-> <<>>, isEnabled |-> TRUE, quickModal |-> FALSE,
   pc |-> "running", isInitialized |-> TRUE, listeners |-> 1,
   excluded |-> FALSE, checkReq |-> 0,
   notification |-> "none", calls |-> <<>>,
   selection |-> NoSelection, selectionchange |-> FALSE,
   awaiting |-> 0, quickReq |-> 0, dom |-> NoDom, event |-> [type |-> "init"]]

Init ==
  /\ remote = <<>>
  /\ local = <<>>
  /\ reqs = <<>>
  /\ replies = <<>>
  /\ clock = 0
  /\ nextId = 1
  /\ wcount = 0
  /\ escIn = <<>>
  /\ escOut = <<>>
  /\ escDone = FALSE
  /\ install = Installed
  /\ agent = Loaded
  /\ web = Mounted

Next ==
  \/ \E m \in Messages(clock) : Receive(m)
  \/ \E i \in 1..Len(reqs) : SaveFetchOk(i)
  \/ \E i \in 1..Len(reqs) : SaveFetchReject(i)
  \/ \E i \in 1..Len(reqs) : SaveFetchDown(i)
  \/ \E i \in 1..Len(reqs) : StorageGetOk(i)
  \/ \E i \in 1..Len(reqs) : StorageGetFail(i)
  \/ \E i \in 1..Len(reqs) : StorageSetOk(i)
  \/ \E i \in 1..Len(reqs) : StorageSetFail(i)
  \/ \E i \in 1..Len(reqs) : GetFetchOk(i)
  \/ \E i \in 1..Len(reqs) : GetFetchFail(i)
  \/ \E i \in 1..Len(reqs) : GetLocalOk(i)
  \/ \E i \in 1..Len(reqs) : GetLocalFail(i)
  \/ \E i \in 1..Len(reqs) : DeleteFetchOk(i)
  \/ \E i \in 1..Len(reqs) : DeleteFetchReject(i)
  \/ \E i \in 1..Len(reqs) : DeleteFetchDown(i)
  \/ \E i \in 1..Len(reqs) : DeleteGetOk(i)
  \/ \E i \in 1..Len(reqs) : DeleteGetFail(i)
  \/ \E i \in 1..Len(reqs) : DeleteSetOk(i)
  \/ \E i \in 1..Len(reqs) : DeleteSetFail(i)
  \/ \E i \in 1..Len(reqs) : SearchFetchOk(i)
  \/ \E i \in 1..Len(reqs) : SearchFetchFail(i)
  \/ \E i \in 1..Len(reqs) : CheckResolve(i)
  \/ Tick

Spec == Init /\ [][Next]_vars

----------------------------------------------------------------------------
(* escapeHtml on its own: every text up to MaxLen over the characters it    *)
(* rewrites, a letter and the semicolon                                      *)

EscChars == {"a", ";", "&", "<", ">", "\"", "'"}

EscInputs == UNION {[1..n -> EscChars] : n \in 0..MaxLen}

InitEsc ==
  /\ remote = <<>>
  /\ local = <<>>
  /\ reqs = <<>>
  /\ replies = <<>>
  /\ clock = 0
  /\ nextId = 1
  /\ wcount = 0
  /\ escIn \in EscInputs
  /\ escOut = <<>>
  /\ escDone = FALSE
  /\ install = Installed
  /\ agent = Loaded
  /\ web = Mounted

\* escapeHtml(data.selectedText)
Escape ==
  /\ ~escDone
  /\ escOut' = escapeHtml(escIn)
  /\ escDone' = TRUE
  /\ UNCHANGED <<coordVars, escIn, agent, web>>

NextEsc == Escape

SpecEsc == InitEsc /\ [][NextEsc]_vars

\* the reference: each character is replaced on its own, "&" like the others
EntityOf(c) ==
  CASE c = "&" -> AMP
    [] c = "<" -> LT
    [] c = ">" -> GT
    [] c = "\"" -> QUOT
    [] c = "'" -> APOS
    [] OTHER -> <<c>>

RECURSIVE EscapeRef(_)
EscapeRef(s) == IF s = <<>> THEN <<>> ELSE EntityOf(Head(s)) \o EscapeRef(Tail(s))

\* C4: escapeHtml's output has no raw "<", ">" or double quote, every "&" in it
\* begins an entity, it equals the character-by-character reference, and the
\* block built by selectionHtml holds the text in that form only
C4_EscapedOnly ==
  escDone =>
    /\ IsEscapedText(escOut)
    /\ escOut = EscapeRef(escIn)
    /\ \A t \in 0..MaxClock :
         /\ IsEscapedText(selectionHtml(escIn, t))
         /\ Contains(selectionHtml(escIn, t), <<"<blockquote>\"">> \o escOut \o <<"\"</blockquote>">>)

\* a text with an ampersand, an angle bracket and a quote has been escaped
C4_Witness ==
  /\ escDone
  /\ escIn = <<"&", "<", "\"">>
  /\ escOut = AMP \o LT \o QUOT

----------------------------------------------------------------------------
(* Properties of the coordinator *)

IsAdd(i) == reqs[i].msg.type = "ADD_SELECTION_TO_PAGE_NOTE"

Done(i) == reqs[i].pc = "done"

Succeeded(i) == Done(i) /\ Len(replies[i]) = 1 /\ replies[i][1].success

UrlOf(i) == Pages[reqs[i].msg.page].url

PageNotesIn(store, url) == {k \in 1..Len(store) : IsPageNote(store[k], url)}

\* the page notes for url, in both stores
PageNotes(url) ==
  {remote[k] : k \in PageNotesIn(remote, url)} \cup {local[k] : k \in PageNotesIn(local, url)}

PageNoteCount(url) ==
  Cardinality(PageNotesIn(remote, url)) + Cardinality(PageNotesIn(local, url))

\* the quoted blocks of a and then b occur in content, in that order
InOrder(content, a, b) ==
  \E x \in 1..Len(content) : \E y \in 1..Len(content) :
    /\ OccursAt(QuoteBlock(a), content, x)
    /\ OccursAt(QuoteBlock(b), content, y)
    /\ x + Len(QuoteBlock(a)) <= y

\* C1: two captures for the same url, the second sent after the first replied
\* with success, leave exactly one page note for the url, with the id both
\* replies carry, holding both selection blocks in call order
C1_SequentialCapturesOneNote ==
  \A i \in 1..Len(reqs) : \A j \in 1..Len(reqs) :
    ( /\ i < j
      /\ IsAdd(i) /\ IsAdd(j)
      /\ UrlOf(i) = UrlOf(j)
      /\ ~reqs[j].overlap
      /\ Succeeded(i) /\ Succeeded(j) )
    => /\ PageNoteCount(UrlOf(i)) = 1
       /\ \A n \in PageNotes(UrlOf(i)) :
            /\ n.id = replies[i][1].data[1].id
            /\ n.id = replies[j][1].data[1].id
            /\ InOrder(n.content, reqs[i].msg.text, reqs[j].msg.text)

AllNotes == {remote[k] : k \in 1..Len(remote)} \cup {local[k] : k \in 1..Len(local)}

\* C5: the content of every stored note holds page data in escaped form only
C5_ContentEscaped == \A n \in AllNotes : IsEscapedText(n.content)

\* C7: no request of an enumerated type is answered as an unknown message type
C7_EnumeratedAccepted ==
  \A i \in 1..Len(reqs) :
    reqs[i].msg.type \in EnumeratedTypes =>
      \A k \in 1..Len(replies[i]) : replies[i][k].error # "Unknown message type"

StoreTypes ==
  {"SAVE_NOTE", "UPDATE_NOTE", "DELETE_NOTE", "GET_NOTES", "SEARCH_NOTES",
   "ADD_SELECTION_TO_PAGE_NOTE"}

\* C10: a request whose remote attempt failed and whose local store call
\* failed too is answered success:false with an error
C10_LocalFailureReported ==
  \A i \in 1..Len(reqs) :
    ( /\ reqs[i].msg.type \in StoreTypes
      /\ Done(i)
      /\ reqs[i].remoteFailed
      /\ reqs[i].localFailed )
    => /\ Len(replies[i]) = 1
       /\ ~replies[i][1].success
       /\ replies[i][1].error # ""

\* C2: a capture for a url without a page note, overlapping no other request,
\* adds exactly one note (tags ["web-page", domain], source.url the url, the
\* escaped selection in a blockquote) and leaves every other note as it was
C2_CreatesOneNote ==
  [][\A i \in 1..Len(reqs) :
       ( /\ IsAdd(i)
         /\ ~Done(i)
         /\ reqs'[i].pc = "done"
         /\ ~reqs'[i].overlap
         /\ replies'[i][1].success
         /\ PageNoteCount(UrlOf(i)) = 0 )
       => LET n == replies'[i][1].data[1]
              page == Pages[reqs[i].msg.page]
          IN  /\ remote' = remote
              /\ local' = <<n>> \o local
              /\ n.id \notin Ids(local) \cup Ids(remote)
              /\ n.tags = <<"web-page", page.domain>>
              /\ n.source.url = page.url
              /\ Contains(n.content, QuoteBlock(reqs[i].msg.text))]_vars

\* a quick note is stored, then a capture creates the page note beside it
C2_Witness ==
  /\ Len(reqs) = 2
  /\ reqs[1].msg.type = "SAVE_NOTE"
  /\ Succeeded(1)
  /\ ~TagsInclude(reqs[1].note[1], "web-page")
  /\ IsAdd(2)
  /\ Succeeded(2)
  /\ ~reqs[2].overlap
  /\ reqs[2].msg.text = <<"<", "&">>
  /\ PageNoteCount(UrlOf(2)) = 1
  /\ Len(remote) + Len(local) = 2

\* C8: a message of an unrecognized type is answered in the listener call
\* itself, once, with success:false; the stores stay as they were and no
\* later reply follows
C8_UnknownAnsweredSync ==
  [][/\ Len(reqs') > Len(reqs) =>
          LET k == Len(reqs')
          IN  reqs'[k].msg.type \notin KnownTypes =>
                /\ replies'[k] = <<Err("Unknown message type")>>
                /\ reqs'[k].pc = "done"
                /\ remote' = remote
                /\ local' = local
                /\ nextId' = nextId
     /\ \A i \in 1..Len(reqs) :
          reqs[i].msg.type \notin KnownTypes =>
            /\ replies'[i] = replies[i]
            /\ reqs'[i] = reqs[i]]_vars

\* an unrecognized message has been answered while a handler is in progress
C8_Witness ==
  \E i \in 1..Len(reqs) : \E j \in 1..Len(reqs) :
    /\ reqs[i].msg.type = "NOTEZ_PING"
    /\ replies[i] = <<Err("Unknown message type")>>
    /\ j < i
    /\ ~Done(j)

FallbackTypes ==
  {"SAVE_NOTE", "UPDATE_NOTE", "DELETE_NOTE", "GET_NOTES", "SEARCH_NOTES"}

LocalPcs ==
  {"saveNoteToStorage.get", "saveNoteToStorage.set", "getNotes.get",
   "deleteNote.get", "deleteNote.set"}

\* C9: a handler reaches the local store only after its remote attempt failed,
\* and when the remote attempt failed and the local store worked the reply is
\* success:true
C9_RemoteFirst ==
  \A i \in 1..Len(reqs) :
    reqs[i].msg.type \in FallbackTypes =>
      /\ ( \/ reqs[i].pc \in LocalPcs
           \/ reqs[i].localUsed
           \/ reqs[i].localFailed
           \/ reqs[i].wstore = "local" ) => reqs[i].remoteFailed
      /\ (Done(i) /\ reqs[i].remoteFailed /\ ~reqs[i].localFailed) => Succeeded(i)

\* a note saved to the remote store is updated while the remote is
\* unreachable: the update falls back to the local store and succeeds
C9_Witness ==
  /\ Len(reqs) = 2
  /\ reqs[1].msg.type = "SAVE_NOTE"
  /\ reqs[1].wstore = "remote"
  /\ reqs[2].msg.type = "UPDATE_NOTE"
  /\ reqs[2].netDown
  /\ reqs[2].wstore = "local"
  /\ Succeeded(2)

----------------------------------------------------------------------------
(* Fairness: every awaited fetch and storage call settles *)

Settle(i) ==
  \/ SaveFetchOk(i) \/ SaveFetchReject(i) \/ SaveFetchDown(i)
  \/ StorageGetOk(i) \/ StorageGetFail(i) \/ StorageSetOk(i) \/ StorageSetFail(i)
  \/ GetFetchOk(i) \/ GetFetchFail(i) \/ GetLocalOk(i) \/ GetLocalFail(i)
  \/ DeleteFetchOk(i) \/ DeleteFetchReject(i) \/ DeleteFetchDown(i)
  \/ DeleteGetOk(i) \/ DeleteGetFail(i) \/ DeleteSetOk(i) \/ DeleteSetFail(i)
  \/ SearchFetchOk(i) \/ SearchFetchFail(i) \/ CheckResolve(i)

SpecFair == Spec /\ \A i \in 1..MaxReq : WF_vars(Settle(i))

WellFormed(rep) ==
  IF rep.success THEN rep.error = "" ELSE rep.error # "" /\ rep.data = <<>>

----------------------------------------------------------------------------
(* Captures on a page that already has its page note: the popup created it  *)
(* with a POST, and a later edit made while the remote was down copied it   *)
(* into the local store                                                      *)

SeedNote == saveNoteBegin(createPageBasedNote(Pages[1], 0), 0, 1).note

InitRace ==
  /\ remote = <<SeedNote>>
  /\ local = <<SeedNote>>
  /\ reqs = <<>>
  /\ replies = <<>>
  /\ clock = 0
  /\ nextId = 2
  /\ wcount = 0
  /\ escIn = <<>>
  /\ escOut = <<>>
  /\ escDone = FALSE
  /\ install = Installed
  /\ agent = Loaded
  /\ web = Mounted

NextRace ==
  \/ \E m \in CaptureMessages : Receive(m)
  \/ \E i \in 1..Len(reqs) : GetFetchOk(i)
  \/ \E i \in 1..Len(reqs) : GetFetchFail(i)
  \/ \E i \in 1..Len(reqs) : GetLocalOk(i)
  \/ \E i \in 1..Len(reqs) : GetLocalFail(i)
  \/ \E i \in 1..Len(reqs) : SaveFetchOk(i)
  \/ \E i \in 1..Len(reqs) : SaveFetchReject(i)
  \/ \E i \in 1..Len(reqs) : SaveFetchDown(i)
  \/ \E i \in 1..Len(reqs) : StorageGetOk(i)
  \/ \E i \in 1..Len(reqs) : StorageGetFail(i)
  \/ \E i \in 1..Len(reqs) : StorageSetOk(i)
  \/ \E i \in 1..Len(reqs) : StorageSetFail(i)
  \/ Tick

SpecRace == InitRace /\ [][NextRace]_vars

StoreOf(name) == IF name = "remote" THEN remote ELSE local

\* i and j are captures of one page that both found the same existing note,
\* both replied success, wrote to the same store, and j's write is the last
RacedPair(i, j) ==
  /\ i # j
  /\ IsAdd(i) /\ IsAdd(j)
  /\ reqs[i].msg.page = reqs[j].msg.page
  /\ reqs[i].found # <<>>
  /\ reqs[i].found = reqs[j].found
  /\ Succeeded(i) /\ Succeeded(j)
  /\ reqs[i].wstore = reqs[j].wstore
  /\ reqs[i].wseq < reqs[j].wseq
  /\ reqs[j].wseq = wcount

\* C3: nothing serializes captures of one page; when two of them read the
\* same page note and both reply success, the stored note is what they read
\* plus the block of the later write alone, so the earlier block is lost
C3_LaterWriteWins ==
  \A i, j \in 1..Len(reqs) :
    RacedPair(i, j) =>
      LET st == StoreOf(reqs[j].wstore)
          id == reqs[j].found[1].id
      IN  /\ id \in Ids(st)
          /\ \E t \in 0..MaxClock :
               st[IndexOf(st, id)].content
                 = reqs[j].found[1].content \o selectionHtml(reqs[j].msg.text, t)

\* two overlapping captures with different selections raced, and the block
\* of the earlier write is not in the stored note
C3_Witness ==
  \E i, j \in 1..Len(reqs) :
    /\ RacedPair(i, j)
    /\ reqs[i].overlap /\ reqs[j].overlap
    /\ reqs[i].msg.text # reqs[j].msg.text
    /\ LET st == StoreOf(reqs[j].wstore)
           n == st[IndexOf(st, reqs[j].found[1].id)]
       IN  /\ ~Contains(n.content, QuoteBlock(reqs[i].msg.text))
           /\ Contains(n.content, QuoteBlock(reqs[j].msg.text))

----------------------------------------------------------------------------
(* Reading during an outage *)

IsGet(i) == reqs[i].msg.type = "GET_NOTES"

\* request i is a GET_NOTES answered from the local store while the remote
\* store could not be reached
OutageRead(i) ==
  /\ IsGet(i)
  /\ Done(i)
  /\ reqs[i].netDown
  /\ reqs[i].localUsed
  /\ ~reqs[i].localFailed

\* C11: a GET_NOTES that cannot reach the remote store and reads the local
\* store replies success with the notes the local store holds at that moment
C11_OutageReadIsLocal ==
  [][\A i \in 1..Len(reqs) :
       (~Done(i) /\ OutageRead(i)') => replies'[i] = <<Ok(local)>>]_vars

\* a note was saved to the local store, then read back during an outage
\* while the remote store holds nothing
C11_Witness ==
  \E i \in 1..Len(reqs) :
    /\ OutageRead(i)
    /\ local # <<>>
    /\ remote = <<>>
    /\ replies[i] = <<Ok(local)>>

IsWrite(i) ==
  reqs[i].msg.type \in {"SAVE_NOTE", "UPDATE_NOTE", "ADD_SELECTION_TO_PAGE_NOTE"}

\* C12: a note whose write replied success is returned, as written, by a
\* GET_NOTES sent afterwards and answered during an outage
C12_NoWriteLostByOutage ==
  \A i \in 1..Len(reqs) : \A j \in 1..Len(reqs) :
    ( /\ j = i + 1
      /\ IsWrite(i)
      /\ Succeeded(i)
      /\ ~reqs[j].overlap
      /\ OutageRead(j) )
    => \E k \in 1..Len(replies[j][1].data) :
         replies[j][1].data[k] = replies[i][1].data[1]

----------------------------------------------------------------------------
(* Writes: saves, updates and captures with every shape of payload *)

NextWrite ==
  \/ \E m \in WriteMessages(clock) : Receive(m)
  \/ \E i \in 1..Len(reqs) : SaveFetchOk(i)
  \/ \E i \in 1..Len(reqs) : SaveFetchReject(i)
  \/ \E i \in 1..Len(reqs) : SaveFetchDown(i)
  \/ \E i \in 1..Len(reqs) : StorageGetOk(i)
  \/ \E i \in 1..Len(reqs) : StorageGetFail(i)
  \/ \E i \in 1..Len(reqs) : StorageSetOk(i)
  \/ \E i \in 1..Len(reqs) : StorageSetFail(i)
  \/ \E i \in 1..Len(reqs) : GetFetchOk(i)
  \/ \E i \in 1..Len(reqs) : GetFetchFail(i)
  \/ \E i \in 1..Len(reqs) : GetLocalOk(i)
  \/ \E i \in 1..Len(reqs) : GetLocalFail(i)
  \/ Tick

SpecWrite == Init /\ [][NextWrite]_vars

\* C13: every stored note has updatedAt >= createdAt
C13_UpdatedNotBeforeCreated == \A n \in AllNotes : n.updatedAt >= n.createdAt

\* the notes of a store that carry the id
Stored(store, id) == {store[k] : k \in {j \in 1..Len(store) : store[j].id = id}}

C15_CreatedAtFixed ==
  [][\A i \in 1..Len(reqs) :
       (IsWrite(i) /\ ~Done(i) /\ Succeeded(i)' /\ ~reqs'[i].overlap)
       => LET id == reqs[i].note[1].id
              before == IF reqs'[i].wstore = "remote" THEN remote ELSE local
              after == IF reqs'[i].wstore = "remote" THEN remote' ELSE local'
          IN  \A o \in Stored(before, id) :
                \A n \in Stored(after, id) : n.createdAt = o.createdAt]_vars

\* C16: the id of the note a handler holds never changes; UPDATE_NOTE uses
\* the id the request names even when the data carries another; SAVE_NOTE
\* uses the id of its data or else one fresh id; an append by a capture uses
\* the id of the note it found; and that id is the one written and replied
C16_IdAssignedOnce ==
  [][/\ \A i \in 1..Len(reqs) :
          reqs[i].note # <<>> =>
            /\ reqs'[i].note # <<>>
            /\ reqs'[i].note[1].id = reqs[i].note[1].id
     /\ Len(reqs') > Len(reqs) =>
          LET r == reqs'[Len(reqs')]
              m == r.msg
          IN  /\ m.type = "UPDATE_NOTE" => r.note[1].id = m.noteId
              /\ (m.type = "SAVE_NOTE" /\ Has(m.data[1], "id")) =>
                   r.note[1].id = m.data[1].id /\ nextId' = nextId
              /\ (m.type = "SAVE_NOTE" /\ ~Has(m.data[1], "id")) =>
                   /\ r.note[1].id = nextId
                   /\ nextId' = nextId + 1
                   /\ nextId \notin Ids(remote) \cup Ids(local)
     /\ \A i \in 1..Len(reqs) :
          (IsAdd(i) /\ reqs[i].note = <<>> /\ reqs'[i].note # <<>> /\ reqs'[i].found # <<>>)
          => reqs'[i].note[1].id = reqs'[i].found[1].id
     /\ \A i \in 1..Len(reqs) :
          (IsWrite(i) /\ ~Done(i) /\ Succeeded(i)')
          => LET id == reqs[i].note[1].id
                 after == IF reqs'[i].wstore = "remote" THEN remote' ELSE local'
             IN  /\ replies'[i][1].data[1].id = id
                 /\ Cardinality(Stored(after, id)) = 1
                 /\ reqs'[i].wstore = "remote" =>
                      \A k \in 1..Len(remote) : remote'[k].id = remote[k].id]_vars

\* a saved note was updated with data that carries another id: it is still
\* stored under the id the request named, and no note has the other id
C16_Witness ==
  /\ Len(reqs) = 2
  /\ Succeeded(1) /\ Succeeded(2)
  /\ reqs[1].msg.type = "SAVE_NOTE"
  /\ ~Has(reqs[1].msg.data[1], "id")
  /\ reqs[2].msg.type = "UPDATE_NOTE"
  /\ Has(reqs[2].msg.data[1], "id")
  /\ reqs[2].msg.data[1].id # reqs[2].msg.noteId
  /\ reqs[2].msg.noteId = replies[1][1].data[1].id
  /\ replies[2][1].data[1].id = reqs[2].msg.noteId
  /\ Ids(remote) \cup Ids(local) = {reqs[2].msg.noteId}

----------------------------------------------------------------------------
(* Installation and one request at a time: chrome.runtime.onInstalled runs  *)
(* initializeStorage, and a message arrives only when no handler and no     *)
(* initialization is in progress                                             *)

\* the extension has just been installed: onInstalled has called initializeStorage
FreshInstall == [pc |-> "get", isInitialized |-> FALSE]

Quiet == Busy = {} /\ install.pc = "idle"

\* onInstalled fires again (extension or browser update, reload)
OnInstalled ==
  /\ Quiet
  /\ install' = [install EXCEPT !.pc = "get"]
  /\ UNCHANGED <<remote, local, reqs, replies, clock, nextId, wcount, escVars, agent, web>>

\* initializeStorage: chrome.storage.local.get resolves
InitGetOk ==
  /\ install.pc = "get"
  /\ install' = [install EXCEPT !.pc = IF install.isInitialized THEN "idle" ELSE "set"]
  /\ UNCHANGED <<remote, local, reqs, replies, clock, nextId, wcount, escVars, agent, web>>

\* initializeStorage: chrome.storage.local.get throws; the catch logs
InitGetFail ==
  /\ install.pc = "get"
  /\ install' = [install EXCEPT !.pc = "idle"]
  /\ UNCHANGED <<remote, local, reqs, replies, clock, nextId, wcount, escVars, agent, web>>

\* initializeStorage: chrome.storage.local.set({ notes: [], isInitialized: true }) resolves
InitSetOk ==
  /\ install.pc = "set"
  /\ local' = <<>>
  /\ install' = [pc |-> "idle", isInitialized |-> TRUE]
  /\ UNCHANGED <<remote, reqs, replies, clock, nextId, wcount, escVars, agent, web>>

\* initializeStorage: chrome.storage.local.set throws; the catch logs
InitSetFail ==
  /\ install.pc = "set"
  /\ install' = [install EXCEPT !.pc = "idle"]
  /\ UNCHANGED <<remote, local, reqs, replies, clock, nextId, wcount, escVars, agent, web>>

ReceiveQuiet(m) == Quiet /\ Receive(m)

InitSeq ==
  /\ remote = <<>>
  /\ local = <<>>
  /\ reqs = <<>>
  /\ replies = <<>>
  /\ clock = 0
  /\ nextId = 1
  /\ wcount = 0
  /\ escIn = <<>>
  /\ escOut = <<>>
  /\ escDone = FALSE
  /\ install = FreshInstall
  /\ agent = Loaded
  /\ web = Mounted

NextSeq ==
  \/ \E m \in Messages(clock) : ReceiveQuiet(m)
  \/ \E i \in 1..Len(reqs) : SaveFetchOk(i)
  \/ \E i \in 1..Len(reqs) : SaveFetchReject(i)
  \/ \E i \in 1..Len(reqs) : SaveFetchDown(i)
  \/ \E i \in 1..Len(reqs) : StorageGetOk(i)
  \/ \E i \in 1..Len(reqs) : StorageGetFail(i)
  \/ \E i \in 1..Len(reqs) : StorageSetOk(i)
  \/ \E i \in 1..Len(reqs) : StorageSetFail(i)
  \/ \E i \in 1..Len(reqs) : GetFetchOk(i)
  \/ \E i \in 1..Len(reqs) : GetFetchFail(i)
  \/ \E i \in 1..Len(reqs) : GetLocalOk(i)
  \/ \E i \in 1..Len(reqs) : GetLocalFail(i)
  \/ \E i \in 1..Len(reqs) : DeleteFetchOk(i)
  \/ \E i \in 1..Len(reqs) : DeleteFetchReject(i)
  \/ \E i \in 1..Len(reqs) : DeleteFetchDown(i)
  \/ \E i \in 1..Len(reqs) : DeleteGetOk(i)
  \/ \E i \in 1..Len(reqs) : DeleteGetFail(i)
  \/ \E i \in 1..Len(reqs) : DeleteSetOk(i)
  \/ \E i \in 1..Len(reqs) : DeleteSetFail(i)
  \/ \E i \in 1..Len(reqs) : SearchFetchOk(i)
  \/ \E i \in 1..Len(reqs) : SearchFetchFail(i)
  \/ \E i \in 1..Len(reqs) : CheckResolve(i)
  \/ OnInstalled
  \/ InitGetOk
  \/ InitGetFail
  \/ InitSetOk
  \/ InitSetFail
  \/ Tick

SpecSeq == InitSeq /\ [][NextSeq]_vars

IsDelete(i) == reqs[i].msg.type = "DELETE_NOTE"

\* C17: a step that is not a step of a DELETE_NOTE handler removes no note id
\* from either store
C17_OnlyDeleteRemoves ==
  [][(\A i \in 1..Len(reqs) : IsDelete(i) => reqs'[i] = reqs[i])
       => /\ Ids(remote) \subseteq Ids(remote')
          /\ Ids(local) \subseteq Ids(local')]_vars

\* C19: after captures that never overlap, no url has two page notes
C19_OnePageNotePerUrl ==
  (Busy = {} /\ \A i \in 1..Len(reqs) : IsAdd(i))
    => \A p \in 1..Len(Pages) : PageNoteCount(Pages[p].url) <= 1

IsMutation(i) == IsWrite(i) \/ IsDelete(i)

\* C18: no step changes both stores; a successful save, update, capture or
\* delete is taken by one store and leaves the other as it was; and the remote
\* store changes only by the note or the id of the request that writes to it,
\* never by notes of the local store
C18_OneStorePerWrite ==
  [][/\ remote' = remote \/ local' = local
     /\ \A i \in 1..Len(reqs) :
          (IsMutation(i) /\ ~Done(i) /\ Succeeded(i)')
          => /\ reqs'[i].wstore \in {"remote", "local"}
             /\ reqs'[i].wstore = "remote" => (local' = local /\ ~reqs'[i].localUsed)
             /\ reqs'[i].wstore = "local" => (remote' = remote /\ reqs'[i].remoteFailed)
     /\ remote' # remote =>
          \E i \in 1..Len(reqs) :
            /\ IsMutation(i) /\ ~Done(i) /\ Succeeded(i)'
            /\ remote' = IF IsDelete(i) THEN WithoutId(remote, reqs[i].msg.noteId)
                         ELSE RemoteAfter(reqs[i].method, reqs[i].note[1])]_vars

\* a note was saved locally during an outage; after the remote came back a
\* second save went to the remote store only, and neither store has the
\* note of the other
C18_Witness ==
  /\ Len(reqs) = 2
  /\ IsWrite(1) /\ IsWrite(2)
  /\ Succeeded(1) /\ Succeeded(2)
  /\ reqs[1].netDown
  /\ reqs[1].wstore = "local"
  /\ reqs[2].wstore = "remote"
  /\ ~reqs[2].overlap
  /\ Ids(local) = {reqs[1].note[1].id}
  /\ Ids(remote) = {reqs[2].note[1].id}
  /\ Ids(local) # Ids(remote)

-----------------------------------------------------------------------------
(* The capture agent: selection affordance of the content script *)

\* text of the page, one character between two consecutive positions
PageText == <<"a", " ", "b">>

Positions == 0..Len(PageText)

RECURSIVE trimStart(_)
trimStart(s) ==
  IF s # <<>> /\ Head(s) = " " THEN trimStart(Tail(s)) ELSE s

RECURSIVE trimEnd(_)
trimEnd(s) ==
  IF s # <<>> /\ s[Len(s)] = " " THEN trimEnd(SubSeq(s, 1, Len(s) - 1)) ELSE s

\* String.prototype.trim
trim(s) == trimEnd(trimStart(s))

\* window.getSelection().toString().trim()
selectionText(sel) ==
  IF sel.rangeCount = 0 THEN <<>> ELSE trim(SubSeq(PageText, sel.lo + 1, sel.hi))

\* what the user can select: nothing, a caret, or a range of the page whose
\* bounding rectangle has a size unless its elements are not rendered
Selections ==
  {NoSelection} \cup
  {sel \in [rangeCount : {1}, lo : Positions, hi : Positions, sized : BOOLEAN] :
     /\ sel.lo <= sel.hi
     /\ sel.lo = sel.hi => ~sel.sized}

\* hideSelectionTooltip's setTimeout(..., 200): the element is left in the page
\* and a removal callback is registered; this.selectionTooltip is set to null
domHide(d) ==
  IF d.followed
  THEN [d EXCEPT !.timers = @ + 1,
                 !.leftover = IF d.attached THEN @ + 1 ELSE @,
                 !.attached = FALSE]
  ELSE d

\* showSelectionTooltipAtRect: createElement and document.body.appendChild
domShow(d) ==
  IF d.followed THEN [d EXCEPT !.attached = TRUE, !.created = @ + 1] ELSE d

\* hideSelectionTooltip: acts only when an affordance exists
hideSelectionTooltip(a) ==
  IF a.selectionTooltip
  THEN [a EXCEPT !.tooltipShowTimeoutId = "null", !.tooltipHideTimeoutId = "null",
                 !.selectionTooltip = FALSE, !.selectedText = <<>>,
                 !.selectionRange = <<>>, !.dom = domHide(@)]
  ELSE a

\* showSelectionTooltipAtRect: hides the existing affordance, renders a new one
\* and starts the 8000 ms auto-hide timer
showSelectionTooltipAtRect(a) ==
  [hideSelectionTooltip(a) EXCEPT !.selectionTooltip = TRUE,
                                  !.tooltipHideTimeoutId = "pending",
                                  !.dom = domShow(@)]

\* handleSelectionEvent, the selectionchange listener
handleSelectionEvent(a) ==
  IF ~a.isEnabled THEN a
  ELSE LET c == [a EXCEPT !.tooltipShowTimeoutId = "null"]
           text == selectionText(a.selection)
       IN IF c.quickModal THEN hideSelectionTooltip(c)
          ELSE IF text # <<>> /\ a.selection.rangeCount > 0
          THEN LET r == [c EXCEPT !.selectedText = text,
                                  !.selectionRange = <<a.selection.lo, a.selection.hi>>]
               IN IF a.selection.sized
                  THEN [r EXCEPT !.tooltipShowTimeoutId = "pending"]
                  ELSE hideSelectionTooltip(r)
          ELSE hideSelectionTooltip(c)

\* a variant whose callback does not look at the selection again
showTimeoutNoRecheck(a) ==
  showSelectionTooltipAtRect([a EXCEPT !.tooltipShowTimeoutId = "fired"])

\* the callback of the 50 ms show timer
showTimeout(a) ==
  LET b == [a EXCEPT !.tooltipShowTimeoutId = "fired"]
  IN IF selectionText(b.selection) = b.selectedText /\ b.selection.rangeCount > 0
     THEN showSelectionTooltipAtRect(b)
     ELSE hideSelectionTooltip(b)

\* Range.comparePoint for the point at position x: -1 before the range, 0 in it, 1 after it
comparePoint(sel, x) == IF x < sel.lo THEN -1 ELSE IF x > sel.hi THEN 1 ELSE 0

\* the mousedown listener; the target element spans the positions ts..te
mousedown(a, inTooltip, ts, te) ==
  IF a.selectionTooltip /\ ~inTooltip
  THEN IF /\ a.selection.rangeCount > 0
          /\ comparePoint(a.selection, ts) <= 0
          /\ comparePoint(a.selection, te) >= 0
       THEN a
       ELSE hideSelectionTooltip(a)
  ELSE a

\* the scroll listener
scroll(a) == IF a.selectionTooltip THEN hideSelectionTooltip(a) ELSE a

\* the keydown listener for the Escape key
keydownEscape(a) ==
  IF ~a.isEnabled THEN a
  ELSE LET m == IF a.quickModal THEN [a EXCEPT !.quickModal = FALSE] ELSE a
       IN IF m.selectionTooltip THEN hideSelectionTooltip(m) ELSE m

\* the callback of the 8000 ms auto-hide timer
hideTimeout(a) ==
  LET b == [a EXCEPT !.tooltipHideTimeoutId = "fired"]
  IN IF b.selectionTooltip THEN hideSelectionTooltip(b) ELSE b

\* a variant that sends whatever text it has, even none
addSelectionToPageNoteUnchecked(a, runtimeOk) ==
  LET text == selectionText(a.selection)
      live == text # <<>> /\ a.selection.rangeCount > 0
      b == IF live
           THEN [a EXCEPT !.selectedText = text,
                          !.selectionRange = <<a.selection.lo, a.selection.hi>>]
           ELSE a
  IN IF ~runtimeOk
     THEN [hideSelectionTooltip(b) EXCEPT !.notification = "noRuntime"]
     ELSE [b EXCEPT !.awaiting = @ + 1, !.notification = "adding"]

\* addSelectionToPageNote up to its await: the live selection is preferred to the
\* remembered one; runtimeOk says whether chrome.runtime and its id are there
addSelectionToPageNote(a, runtimeOk) ==
  LET text == selectionText(a.selection)
      live == text # <<>> /\ a.selection.rangeCount > 0
      b == IF live
           THEN [a EXCEPT !.selectedText = text,
                          !.selectionRange = <<a.selection.lo, a.selection.hi>>]
           ELSE a
  IN IF ~live /\ a.selectedText = <<>>
     THEN [hideSelectionTooltip(a) EXCEPT !.notification = "noText"]
     ELSE IF ~runtimeOk
     THEN [hideSelectionTooltip(b) EXCEPT !.notification = "noRuntime"]
     ELSE [b EXCEPT !.awaiting = @ + 1, !.notification = "adding"]

\* the finally block of addSelectionToPageNote, after any outcome
dispatchFinally(a) ==
  [hideSelectionTooltip(a) EXCEPT
     !.awaiting = @ - 1,
     !.selection = NoSelection,
     !.selectionchange = @ \/ a.selection.rangeCount > 0]

\* addSelectionToPageNote after its await: the notification of the outcome,
\* then the finally block
dispatchEnd(a, outcome) ==
  dispatchFinally([a EXCEPT !.notification = outcome])

Outcomes == {"added", "failed", "timeout", "unreachable"}

\* the user changes the selection; the browser queues one selectionchange event
Select(sel) ==
  /\ sel # agent.selection
  /\ agent' = [[agent EXCEPT !.selection = sel, !.selectionchange = TRUE]
                EXCEPT !.event = [type |-> "select"]]
  /\ UNCHANGED <<coordVars, escVars, web>>

SelectionChange ==
  /\ agent.listeners > 0
  /\ agent.selectionchange
  /\ agent' = [handleSelectionEvent([agent EXCEPT !.selectionchange = FALSE])
                EXCEPT !.event = [type |-> "selectionchange"]]
  /\ UNCHANGED <<coordVars, escVars, web>>

ShowTimeout ==
  /\ agent.tooltipShowTimeoutId = "pending"
  /\ agent' = [showTimeout(agent)
                EXCEPT !.event = [type |-> "showTimeout"]]
  /\ UNCHANGED <<coordVars, escVars, web>>

Scroll ==
  /\ agent.listeners > 0
  /\ agent' = [scroll(agent) EXCEPT !.event = [type |-> "scroll"]]
  /\ UNCHANGED <<coordVars, escVars, web>>

\* the positions lo..hi lie outside the selected range, or there is none
Outside(sel, lo, hi) == sel.rangeCount = 0 \/ hi < sel.lo \/ lo > sel.hi

\* a mousedown at position p of an element that spans ts..te, or on the affordance
MouseDown(inTooltip, ts, te, p) ==
  /\ agent.listeners > 0
  /\ ts <= p /\ p <= te
  /\ inTooltip => agent.selectionTooltip
  /\ agent' = [mousedown(agent, inTooltip, ts, te)
                EXCEPT !.event = [type |-> "mousedown", inTooltip |-> inTooltip,
                                  outside |-> Outside(agent.selection, p, p),
                                  clear |-> Outside(agent.selection, ts, te)]]
  /\ UNCHANGED <<coordVars, escVars, web>>

KeyEscape ==
  /\ agent.listeners > 0
  /\ agent' = [keydownEscape(agent) EXCEPT !.event = [type |-> "Escape"]]
  /\ UNCHANGED <<coordVars, escVars, web>>

\* Ctrl+Shift+N outside an input field
ShowQuickNoteModal ==
  /\ agent.listeners > 0
  /\ agent.isEnabled
  /\ ~agent.quickModal
  /\ agent' = [[agent EXCEPT !.quickModal = TRUE]
                EXCEPT !.event = [type |-> "quickNote"]]
  /\ UNCHANGED <<coordVars, escVars, web>>

HideTimeout ==
  /\ agent.tooltipHideTimeoutId = "pending"
  /\ agent' = [hideTimeout(agent)
                EXCEPT !.event = [type |-> "hideTimeout"]]
  /\ UNCHANGED <<coordVars, escVars, web>>

\* a click on the affordance's button
ClickAdd(runtimeOk) ==
  /\ agent.selectionTooltip
  /\ agent.awaiting < MaxAwait
  /\ agent' = [addSelectionToPageNote(agent, runtimeOk)
                EXCEPT !.event = [type |-> "click", runtimeOk |-> runtimeOk]]
  /\ UNCHANGED <<coordVars, escVars, web>>

\* the reply, the rejection or the 5 s timeout of one dispatch
Dispatched(outcome) ==
  /\ agent.awaiting > 0
  /\ agent' = [dispatchEnd(agent, outcome)
                EXCEPT !.event = [type |-> "dispatched", outcome |-> outcome]]
  /\ UNCHANGED <<coordVars, escVars, web>>

InitAgent == Init

NextAgent ==
  \/ \E sel \in Selections : Select(sel)
  \/ SelectionChange
  \/ ShowTimeout
  \/ Scroll
  \/ \E inTooltip \in BOOLEAN : \E ts, te, p \in Positions : MouseDown(inTooltip, ts, te, p)
  \/ KeyEscape
  \/ ShowQuickNoteModal
  \/ HideTimeout
  \/ \E runtimeOk \in BOOLEAN : ClickAdd(runtimeOk)
  \/ \E outcome \in Outcomes : Dispatched(outcome)

SpecAgent == InitAgent /\ [][NextAgent]_vars

Visible == agent.selectionTooltip

Idle ==
  /\ ~agent.selectionTooltip
  /\ agent.selectedText = <<>>
  /\ agent.selectionRange = <<>>
  /\ agent.tooltipShowTimeoutId # "pending"
  /\ agent.tooltipHideTimeoutId # "pending"

\* the mousedown of the step was outside the affordance, at a position outside
\* the selection that was active before it
MouseDownOutside ==
  /\ agent'.event.type = "mousedown"
  /\ ~agent'.event.inTooltip
  /\ agent'.event.outside

\* the selectionchange handled by the step found the selection empty
SelectionEmptied ==
  /\ agent'.event.type = "selectionchange"
  /\ selectionText(agent.selection) = <<>>

\* C20: from Visible, an emptied selection, a scroll, a mousedown outside the
\* affordance and outside the active selection, the Escape key, the auto-hide
\* timer and the completion of a dispatch (any outcome) each leave the agent
\* Idle: no affordance, no remembered selection, no pending show or auto-hide timer
C20_VisibleToIdle ==
  [][(/\ Visible
      /\ \/ SelectionEmptied
         \/ agent'.event.type \in {"scroll", "Escape", "hideTimeout", "dispatched"}
         \/ MouseDownOutside)
     => Idle']_vars

\* the mousedown of the step was outside the affordance, on an element that
\* lies wholly before or wholly after the selection that was active before it
MouseDownClear ==
  /\ agent'.event.type = "mousedown"
  /\ ~agent'.event.inTooltip
  /\ agent'.event.clear

\* the part of the Visible -> Idle table that the listeners implement: the five
\* other events, and a mousedown on an element clear of the selection
VisibleToIdleByTarget ==
  [][(/\ Visible
      /\ \/ SelectionEmptied
         \/ agent'.event.type \in {"scroll", "Escape", "hideTimeout", "dispatched"}
         \/ MouseDownClear)
     => Idle']_vars

-----------------------------------------------------------------------------
(* Showing the affordance *)

PendingShow == ~agent.selectionTooltip /\ agent.tooltipShowTimeoutId = "pending"

\* the step handles a selectionchange that finds text with a sized rectangle,
\* on an enabled agent without affordance, the quick-note dialog closed
SelectionArmed ==
  /\ agent'.event.type = "selectionchange"
  /\ ~Visible
  /\ agent.isEnabled
  /\ ~agent.quickModal
  /\ selectionText(agent.selection) # <<>>
  /\ agent.selection.sized

-----------------------------------------------------------------------------
(* The enablement gate: checkUrlEnabled at start, the popup's settings *)

\* the content script right after its field initialisers; excl says whether the
\* stored settings (chrome.storage.local "settings") exclude this page's url
Constructed(excl) ==
  [Loaded EXCEPT !.pc = "check", !.isInitialized = FALSE, !.listeners = 0,
                 !.excluded = excl]

\* init(): attaches the listeners unless already initialized
init(a) ==
  IF a.isInitialized THEN a
  ELSE [a EXCEPT !.listeners = @ + 1, !.isInitialized = TRUE]

\* the constructor's continuation of checkUrlEnabled
checked(a) ==
  IF a.isEnabled THEN [init(a) EXCEPT !.pc = "running"] ELSE [a EXCEPT !.pc = "off"]

\* checkUrlEnabled's use of the reply
enabledBy(response) ==
  IF response.success THEN response.data[1].enabled ELSE TRUE

\* checkUrlEnabled without chrome.runtime
CheckUrlNoRuntime ==
  /\ agent.pc = "check"
  /\ agent' = [checked([agent EXCEPT !.isEnabled = FALSE])
                 EXCEPT !.event = [type |-> "checkUrlEnabled"]]
  /\ UNCHANGED <<coordVars, escVars, web>>

\* checkUrlEnabled whose sendMessage ends with chrome.runtime.lastError
CheckUrlLastError ==
  /\ agent.pc = "check"
  /\ agent' = [checked([agent EXCEPT !.isEnabled = TRUE])
                 EXCEPT !.event = [type |-> "checkUrlEnabled"]]
  /\ UNCHANGED <<coordVars, escVars, web>>

\* checkUrlEnabled sends CHECK_URL_ENABLED and awaits the reply
CheckUrlSend ==
  /\ agent.pc = "check"
  /\ OnMessage(Msg("CHECK_URL_ENABLED", 1, <<>>, <<>>, 0, ""))
  /\ agent' = [agent EXCEPT !.pc = "awaitCheck", !.checkReq = Len(reqs) + 1,
                            !.event = [type |-> "checkUrlEnabled"]]

\* the reply arrives
CheckUrlReply ==
  /\ agent.pc = "awaitCheck"
  /\ replies[agent.checkReq] # <<>>
  /\ agent' = [checked([agent EXCEPT !.isEnabled = enabledBy(replies[agent.checkReq][1])])
                 EXCEPT !.event = [type |-> "checkUrlEnabled"]]
  /\ UNCHANGED <<coordVars, escVars, web>>

\* the popup saves settings that change whether this url is excluded, then
\* sends SETTINGS_UPDATED
SaveSettings(excl) ==
  /\ excl # agent.excluded
  /\ OnMessage(Msg("SETTINGS_UPDATED", 0, <<>>, <<>>, 0, ""))
  /\ agent' = [agent EXCEPT !.excluded = excl, !.event = [type |-> "settings"]]

InitGate ==
  /\ remote = <<>>
  /\ local = <<>>
  /\ reqs = <<>>
  /\ replies = <<>>
  /\ clock = 0
  /\ nextId = 1
  /\ wcount = 0
  /\ escIn = <<>>
  /\ escOut = <<>>
  /\ escDone = FALSE
  /\ install = Installed
  /\ agent \in {Constructed(excl) : excl \in BOOLEAN}
  /\ web = Mounted

NextGate ==
  \/ CheckUrlNoRuntime
  \/ CheckUrlLastError
  \/ CheckUrlSend
  \/ \E i \in 1..Len(reqs) : CheckResolve(i)
  \/ CheckUrlReply
  \/ \E excl \in BOOLEAN : SaveSettings(excl)
  \/ \E sel \in Selections : Select(sel)
  \/ SelectionChange
  \/ ShowTimeout
  \/ HideTimeout
  \/ Scroll

SpecGate == InitGate /\ [][NextGate]_vars

SettingsChanged == \E i \in 1..Len(reqs) : reqs[i].msg.type = "SETTINGS_UPDATED"

\* C22: while the stored settings exclude the page's url (and have done so
\* since the agent started), the agent never renders the affordance
C22_ExcludedNeverRenders ==
  (agent.excluded /\ ~SettingsChanged) => ~agent.selectionTooltip

\* C23: once a settings change has been sent to the coordinator and answered,
\* with no request in progress and the agent's own check over, the agent's gate
\* agrees with the stored settings: isEnabled exactly when the url is not
\* excluded, and no affordance on an excluded url
C23_GateFollowsSettings ==
  (/\ SettingsChanged
   /\ Busy = {}
   /\ agent.pc \in {"running", "off"})
  => /\ agent.isEnabled <=> ~agent.excluded
     /\ agent.excluded => ~agent.selectionTooltip

-----------------------------------------------------------------------------
(* The capture action *)

\* the click of the step found text to capture but no usable chrome.runtime,
\* and addSelectionToPageNote returned before sending
ContextUnavailable ==
  /\ agent'.event.type = "click"
  /\ ~agent'.event.runtimeOk
  /\ selectionText(agent.selection) # <<>> \/ agent.selectedText # <<>>

\* C24: a capture action ends with the affordance hidden and the page's
\* selection cleared, whether it ends by a reply (added or failed), the reply
\* timeout, an unreachable channel, or an unavailable extension context
C24_CaptureCleansUp ==
  [][(agent'.event.type = "dispatched" \/ ContextUnavailable)
     => /\ ~agent'.selectionTooltip
        /\ agent'.selection.rangeCount = 0]_vars

-----------------------------------------------------------------------------
(* The capture dispatch: the agent together with the coordinator *)

\* nothing selected, or the first word of the page
CaptureSelections ==
  {NoSelection, [rangeCount |-> 1, lo |-> 0, hi |-> 1, sized |-> TRUE]}

\* one call of chrome.runtime.sendMessage by addSelectionToPageNote: req is the
\* coordinator's request (0 when the channel did not deliver the message)
NewCall(req) ==
  [req |-> req, outcome |-> "awaiting", wcount |-> 0, late |-> FALSE]

\* the promise of call k settles with this outcome; the store writes made so
\* far are noted
settled(a, k, outcome) ==
  [dispatchEnd(a, outcome) EXCEPT !.calls[k].outcome = outcome,
                                  !.calls[k].wcount = wcount]

\* a click on the affordance's button; when addSelectionToPageNote gets as far
\* as sendMessage, the channel delivers the message to the coordinator or fails
Click(runtimeOk, channelOk) ==
  /\ agent.selectionTooltip
  /\ agent.awaiting < MaxAwait
  /\ LET b == addSelectionToPageNote(agent, runtimeOk)
         sends == b.awaiting > agent.awaiting
         req == IF channelOk THEN Len(reqs) + 1 ELSE 0
     IN /\ sends => Len(agent.calls) < MaxCalls
        /\ IF sends /\ channelOk
           THEN OnMessage(Msg("ADD_SELECTION_TO_PAGE_NOTE", 1, b.selectedText, <<>>, 0, ""))
           ELSE UNCHANGED <<coordVars, escVars, web>>
        /\ agent' = [b EXCEPT
             !.calls = IF sends THEN Append(@, NewCall(req)) ELSE @,
             !.event = [type |-> "click", runtimeOk |-> runtimeOk]]

\* the callback of sendMessage runs with the coordinator's reply
Reply(k) ==
  /\ k \in 1..Len(agent.calls)
  /\ agent.calls[k].outcome = "awaiting"
  /\ agent.calls[k].req > 0
  /\ replies[agent.calls[k].req] # <<>>
  /\ LET response == replies[agent.calls[k].req][1]
         outcome == IF response.success THEN "added" ELSE "failed"
     IN agent' = [settled(agent, k, outcome)
                    EXCEPT !.event = [type |-> "dispatched", outcome |-> outcome]]
  /\ UNCHANGED <<coordVars, escVars, web>>

\* a variant of the timeout that also aborts the coordinator's handler
ReplyTimeoutAbort(k) ==
  /\ k \in 1..Len(agent.calls)
  /\ agent.calls[k].outcome = "awaiting"
  /\ agent.calls[k].req > 0
  /\ agent' = [settled(agent, k, "timeout")
                 EXCEPT !.event = [type |-> "dispatched", outcome |-> "timeout"]]
  /\ reqs' = [reqs EXCEPT ![agent.calls[k].req].pc = "done"]
  /\ UNCHANGED <<remote, local, replies, clock, nextId, wcount, install, escVars, web>>

\* a variant of the timeout that sends the message again
ReplyTimeoutResend(k) ==
  /\ k \in 1..Len(agent.calls)
  /\ agent.calls[k].outcome = "awaiting"
  /\ agent.calls[k].req > 0
  /\ agent' = [settled(agent, k, "timeout")
                 EXCEPT !.event = [type |-> "dispatched", outcome |-> "timeout"]]
  /\ OnMessage(reqs[agent.calls[k].req].msg)

\* the 5000 ms timer of call k fires before any reply has been delivered
ReplyTimeout(k) ==
  /\ k \in 1..Len(agent.calls)
  /\ agent.calls[k].outcome = "awaiting"
  /\ agent.calls[k].req > 0
  /\ agent' = [settled(agent, k, "timeout")
                 EXCEPT !.event = [type |-> "dispatched", outcome |-> "timeout"]]
  /\ UNCHANGED <<coordVars, escVars, web>>

\* a variant in which the late callback settles the dispatch a second time
lateReplyNotifies(a, k, response) ==
  [dispatchEnd([a EXCEPT !.awaiting = @ + 1],
               IF response.success THEN "added" ELSE "failed")
     EXCEPT !.calls[k].late = TRUE]

\* the callback of sendMessage when the 5000 ms timer has already rejected the
\* promise: clearTimeout and resolve have no effect; the call is noted as
\* answered late
lateReply(a, k, response) ==
  [a EXCEPT !.calls[k].late = TRUE]

\* the coordinator's reply is delivered after the timeout of call k
LateReply(k) ==
  /\ k \in 1..Len(agent.calls)
  /\ agent.calls[k].outcome = "timeout"
  /\ ~agent.calls[k].late
  /\ replies[agent.calls[k].req] # <<>>
  /\ agent' = [lateReply(agent, k, replies[agent.calls[k].req][1])
                 EXCEPT !.event = [type |-> "lateReply"]]
  /\ UNCHANGED <<coordVars, escVars, web>>

\* the callback of sendMessage runs with chrome.runtime.lastError
Unreachable(k) ==
  /\ k \in 1..Len(agent.calls)
  /\ agent.calls[k].outcome = "awaiting"
  /\ agent.calls[k].req = 0
  /\ agent' = [settled(agent, k, "unreachable")
                 EXCEPT !.event = [type |-> "dispatched", outcome |-> "unreachable"]]
  /\ UNCHANGED <<coordVars, escVars, web>>

\* the page has no note yet, or both stores hold one
InitCapture == Init \/ InitRace

NextCapture ==
  \/ \E sel \in CaptureSelections : Select(sel)
  \/ SelectionChange
  \/ ShowTimeout
  \/ \E runtimeOk, channelOk \in BOOLEAN : Click(runtimeOk, channelOk)
  \/ \E k \in 1..Len(agent.calls) : Reply(k)
  \/ \E k \in 1..Len(agent.calls) : ReplyTimeout(k)
  \/ \E k \in 1..Len(agent.calls) : Unreachable(k)
  \/ \E k \in 1..Len(agent.calls) : LateReply(k)
  \/ \E i \in 1..Len(reqs) : GetFetchOk(i)
  \/ \E i \in 1..Len(reqs) : GetFetchFail(i)
  \/ \E i \in 1..Len(reqs) : GetLocalOk(i)
  \/ \E i \in 1..Len(reqs) : GetLocalFail(i)
  \/ \E i \in 1..Len(reqs) : SaveFetchOk(i)
  \/ \E i \in 1..Len(reqs) : SaveFetchReject(i)
  \/ \E i \in 1..Len(reqs) : SaveFetchDown(i)
  \/ \E i \in 1..Len(reqs) : StorageGetOk(i)
  \/ \E i \in 1..Len(reqs) : StorageGetFail(i)
  \/ \E i \in 1..Len(reqs) : StorageSetOk(i)
  \/ \E i \in 1..Len(reqs) : StorageSetFail(i)

SpecCapture == InitCapture /\ [][NextCapture]_vars

\* the step is a click on the affordance
ClickStep == agent'.event.type = "click" /\ agent.selectionTooltip /\ agent' # agent

\* the step settles a call of the agent with this outcome
SettleStep(outcome) ==
  /\ agent' # agent
  /\ agent'.event.type = "dispatched"
  /\ agent'.event.outcome = outcome

\* C25: the coordinator receives a message only in the step of a click, one
\* message for that click, which is the call the agent then awaits; the step
\* that ends a call by the 5 s timeout or by an unreachable channel sends
\* nothing, and reports that outcome to the user
C25_OneMessagePerClick ==
  [][/\ Len(reqs') > Len(reqs) =>
          /\ ClickStep
          /\ Len(reqs') = Len(reqs) + 1
          /\ Len(agent'.calls) = Len(agent.calls) + 1
          /\ agent'.calls[Len(agent'.calls)].req = Len(reqs')
     /\ \A outcome \in {"timeout", "unreachable"} :
          SettleStep(outcome) =>
            /\ reqs' = reqs
            /\ Len(agent'.calls) = Len(agent.calls)
            /\ agent'.notification = outcome]_vars

\* a call has ended by its timeout and the coordinator holds one request only
C25_Witness ==
  /\ Len(agent.calls) = 1
  /\ agent.calls[1].outcome = "timeout"
  /\ agent.notification = "timeout"
  /\ Len(reqs) = 1
  /\ reqs[1].pc = "done"

\* C26: the step in which the agent gives up waiting leaves the coordinator's
\* request, its replies and both stores as they are, so the handler goes on
C26_TimeoutCancelsNothing ==
  [][SettleStep("timeout") => UNCHANGED <<reqs, replies, remote, local, wcount>>]_vars

\* the agent reported a timeout for a capture, and afterwards the coordinator
\* wrote that capture's note to a store and replied success
C26_Witness ==
  \E k \in 1..Len(agent.calls) :
    /\ agent.calls[k].outcome = "timeout"
    /\ agent.calls[k].req > 0
    /\ LET i == agent.calls[k].req
       IN /\ reqs[i].msg.type = "ADD_SELECTION_TO_PAGE_NOTE"
          /\ reqs[i].pc = "done"
          /\ replies[i] # <<>>
          /\ replies[i][1].success
          /\ reqs[i].wseq > agent.calls[k].wcount
          /\ reqs[i].wstore \in {"remote", "local"}

\* C27: a click that finds no selected text and no remembered text sends
\* nothing, starts no call, leaves both stores unchanged and shows the
\* "no text selected" notification
C27_NoTextNoMessage ==
  [][(/\ ClickStep
      /\ selectionText(agent.selection) = <<>>
      /\ agent.selectedText = <<>>)
     => /\ reqs' = reqs
        /\ remote' = remote
        /\ local' = local
        /\ agent'.calls = agent.calls
        /\ agent'.awaiting = agent.awaiting
        /\ agent'.notification = "noText"]_vars

\* such a click has happened
C27_Witness ==
  /\ agent.event.type = "click"
  /\ agent.notification = "noText"
  /\ selectionText(agent.selection) = <<>>
  /\ agent.selectedText = <<>>
  /\ ~agent.selectionTooltip

-----------------------------------------------------------------------------
(* Reading back: order and patches *)

\* a quick note saved with id 2 at time 0
SeedQuick == saveNoteBegin(saveQuickNote(Pages[1]), 0, 2).note

\* two notes were saved at time 0 while the remote store was unreachable
InitOrder ==
  /\ remote = <<>>
  /\ local = storeNote(storeNote(<<>>, stampForStorage(SeedNote, 0)),
                       stampForStorage(SeedQuick, 0))
  /\ reqs = <<>>
  /\ replies = <<>>
  /\ clock = 0
  /\ nextId = 3
  /\ wcount = 0
  /\ escIn = <<>>
  /\ escOut = <<>>
  /\ escDone = FALSE
  /\ install = Installed
  /\ agent = Loaded
  /\ web = Mounted

SpecOrder == InitOrder /\ [][Next]_vars

SortedDesc(ns) ==
  \A j \in 1..(Len(ns) - 1) : ns[j].updatedAt >= ns[j + 1].updatedAt

\* C28: the list a GET_NOTES replies with is sorted by updatedAt, newest
\* first, whether the remote store or the local fallback answered
C28_SortedWhicheverStore ==
  \A i \in 1..Len(reqs) :
    (/\ reqs[i].msg.type = "GET_NOTES"
     /\ Done(i)
     /\ replies[i] # <<>>
     /\ replies[i][1].success)
    => SortedDesc(replies[i][1].data)

PatchFields == {"title", "content", "tags", "source", "createdAt"}

NoteOf(notes, id) == notes[IndexOf(notes, id)]

\* the step in which request i writes its note to a store
WritesNow(i) == reqs[i].wseq = 0 /\ reqs'[i].wseq > 0

\* C29: when an UPDATE_NOTE writes a note that the store already holds, every
\* field of the stored note that the update's data does not name keeps its value
C29_UpdateIsPatch ==
  [][\A i \in 1..Len(reqs) :
       (reqs[i].msg.type = "UPDATE_NOTE" /\ WritesNow(i)) =>
         LET id == reqs[i].msg.noteId
             data == reqs[i].msg.data[1]
             before == IF reqs'[i].wstore = "remote" THEN remote ELSE local
             after == IF reqs'[i].wstore = "remote" THEN remote' ELSE local'
         IN id \in Ids(before) =>
              \A f \in PatchFields \ DOMAIN data :
                Has(NoteOf(before, id), f) =>
                  /\ Has(NoteOf(after, id), f)
                  /\ NoteOf(after, id)[f] = NoteOf(before, id)[f]]_vars

-----------------------------------------------------------------------------
(* The local collection *)

\* C30: the local collection never holds two notes with the same id, whatever
\* saves, updates, captures and deletes have run, overlapping or one by one
C30_LocalKeyedById ==
  \A j, k \in 1..Len(local) : j # k => local[j].id # local[k].id

\* two overlapping requests have both written a note with the same id to the
\* local store, which holds it once
C30_Witness ==
  \E i, j \in 1..Len(reqs) :
    /\ i # j
    /\ reqs[i].overlap /\ reqs[j].overlap
    /\ reqs[i].wstore = "local" /\ reqs[j].wstore = "local"
    /\ reqs[i].note # <<>> /\ reqs[j].note # <<>>
    /\ reqs[i].note[1].id = reqs[j].note[1].id
    /\ Cardinality(Stored(local, reqs[i].note[1].id)) = 1

-----------------------------------------------------------------------------
(* The start of the agent *)

\* the agent's check ended with a reply that says enabled = true
EnabledReply ==
  /\ agent.checkReq # 0
  /\ replies[agent.checkReq] # <<>>
  /\ replies[agent.checkReq][1].success
  /\ replies[agent.checkReq][1].data[1].enabled

\* C31: the agent has listeners attached or an affordance rendered only after
\* a CHECK_URL_ENABLED reply that says enabled = true; a check that fails
\* leaves the agent disabled, without listeners
C31_OnlyAfterEnabledReply ==
  (agent.listeners > 0 \/ agent.selectionTooltip)
  => EnabledReply

-----------------------------------------------------------------------------
(* The quick note dialog: saveQuickNote *)

\* what the user has typed into the title field and the editor
TitleFields == {<<>>, <<" ">>, <<"T">>}
EditorHtml == {<<>>, <<" ">>, <<"q">>}

\* const title = titleInput.value.trim() || 'Untitled Note'
quickTitle(titleField) ==
  IF trim(titleField) # <<>> THEN trim(titleField) ELSE <<"Untitled Note">>

\* if (!content && !title)
quickNoteIsEmpty(titleField, editorHtml) ==
  trim(editorHtml) = <<>> /\ quickTitle(titleField) = <<>>

\* noteData; none of the typed contents holds a #tag
quickNoteData(page, titleField, editorHtml) ==
  [ title |-> quickTitle(titleField),
    content |-> trim(editorHtml),
    tags |-> <<>>,
    source |-> [url |-> page.url, title |-> page.title, type |-> "web"] ]

\* Ctrl+Enter or the save button of the dialog: saveQuickNote up to its await
SaveQuickNote(titleField, editorHtml, runtimeOk, channelOk) ==
  /\ agent.quickModal
  /\ agent.quickReq = 0
  /\ LET ev == [type |-> "saveQuickNote", title |-> titleField, html |-> editorHtml]
         sends == ~quickNoteIsEmpty(titleField, editorHtml) /\ runtimeOk /\ channelOk
     IN IF sends
        THEN /\ OnMessage(Msg("SAVE_NOTE", 1, <<>>,
                              <<quickNoteData(Pages[1], titleField, editorHtml)>>, 0, ""))
             /\ agent' = [agent EXCEPT !.quickReq = Len(reqs) + 1,
                                       !.notification = "saving", !.event = ev]
        ELSE /\ agent' = [agent EXCEPT
                            !.notification =
                               IF quickNoteIsEmpty(titleField, editorHtml) THEN "empty"
                               ELSE IF ~runtimeOk THEN "error" ELSE "unreachable",
                            !.event = ev]
             /\ UNCHANGED <<coordVars, escVars, web>>

\* the reply to SAVE_NOTE arrives before the 10 s timeout
QuickReply ==
  /\ agent.quickReq # 0
  /\ replies[agent.quickReq] # <<>>
  /\ agent' = [agent EXCEPT
                 !.quickModal = IF replies[agent.quickReq][1].success THEN FALSE ELSE @,
                 !.notification = IF replies[agent.quickReq][1].success THEN "saved" ELSE "error",
                 !.quickReq = 0,
                 !.event = [type |-> "quickReply"]]
  /\ UNCHANGED <<coordVars, escVars, web>>

\* the 10 s timeout wins the race
QuickTimeout ==
  /\ agent.quickReq # 0
  /\ agent' = [agent EXCEPT !.notification = "timeout", !.quickReq = 0,
                            !.event = [type |-> "quickTimeout"]]
  /\ UNCHANGED <<coordVars, escVars, web>>

NextQuick ==
  \/ ShowQuickNoteModal
  \/ KeyEscape
  \/ \E t \in TitleFields, h \in EditorHtml : \E runtimeOk, channelOk \in BOOLEAN :
       SaveQuickNote(t, h, runtimeOk, channelOk)
  \/ QuickReply
  \/ QuickTimeout
  \/ \E i \in 1..Len(reqs) : SaveFetchOk(i)
  \/ \E i \in 1..Len(reqs) : SaveFetchDown(i)
  \/ \E i \in 1..Len(reqs) : StorageGetOk(i)
  \/ \E i \in 1..Len(reqs) : StorageGetFail(i)
  \/ \E i \in 1..Len(reqs) : StorageSetOk(i)
  \/ \E i \in 1..Len(reqs) : StorageSetFail(i)

SpecQuick == InitCapture /\ [][NextQuick]_vars

\* the step is a save of the dialog with nothing in the title field and
\* nothing in the editor
SaveOfEmptyQuickNote ==
  /\ agent' # agent
  /\ agent'.event.type = "saveQuickNote"
  /\ agent'.event.title = <<>>
  /\ agent'.event.html = <<>>

\* C32: a save of a quick note whose title field and content are both empty
\* sends no message to the coordinator
C32_EmptyQuickNoteRejected ==
  [][SaveOfEmptyQuickNote => reqs' = reqs]_vars

-----------------------------------------------------------------------------
(* Reading one's own writes *)

WriteTypes == {"SAVE_NOTE", "UPDATE_NOTE", "ADD_SELECTION_TO_PAGE_NOTE"}

\* request i is a write that replied success, request i + 1 is a GET_NOTES
\* that began after the write's reply and is answered, the remote store was
\* reachable for both or unreachable for both, and no local store call threw
WriteThenRead(i) ==
  /\ i + 1 <= Len(reqs)
  /\ reqs[i].msg.type \in WriteTypes
  /\ reqs[i].pc = "done" /\ ~reqs[i].overlap
  /\ replies[i][1].success
  /\ reqs[i + 1].msg.type = "GET_NOTES"
  /\ reqs[i + 1].pc = "done" /\ ~reqs[i + 1].overlap
  /\ reqs[i].netDown <=> reqs[i + 1].netDown
  /\ ~reqs[i + 1].localFailed

\* the list holds a note with this note's id and content
Returns(list, note) ==
  \E k \in 1..Len(list) : list[k].id = note.id /\ list[k].content = note.content

\* C33: a GET_NOTES issued right after a write that replied success, with the
\* remote store's availability unchanged, returns the written note with the
\* written content
C33_ReadYourWrites ==
  \A i \in 1..Len(reqs) :
    WriteThenRead(i)
    => /\ replies[i + 1][1].success
       /\ Returns(replies[i + 1][1].data, replies[i][1].data[1])

-----------------------------------------------------------------------------
(* Deleting a note that both stores hold *)

SpecDurable == InitRace /\ [][Next]_vars

\* request i is a DELETE_NOTE that replied success, request j is a GET_NOTES
\* that began after every earlier request was over, and no request after the
\* delete is a write
DeletedThenRead(i, j) ==
  /\ i < j
  /\ IsDelete(i) /\ reqs[i].pc = "done" /\ ~reqs[i].overlap
  /\ replies[i][1].success
  /\ reqs[j].msg.type = "GET_NOTES" /\ reqs[j].pc = "done" /\ ~reqs[j].overlap
  /\ \A k \in (i + 1)..Len(reqs) : reqs[k].msg.type \notin WriteTypes

\* C34: after a DELETE_NOTE for an id replied success, with no later write,
\* no GET_NOTES returns a note with that id, whether the remote store was
\* reachable or not for the delete and for the read
C34_DeleteIsDurable ==
  \A i, j \in 1..Len(reqs) :
    DeletedThenRead(i, j)
    => \A k \in 1..Len(replies[j][1].data) :
         replies[j][1].data[k].id # reqs[i].msg.noteId

-----------------------------------------------------------------------------
(* Overlapping writes to different notes *)

\* i and j are the only writes so far: two overlapping write requests for
\* different note ids that both replied success and were taken by one store
OverlappingWrites(i, j) ==
  /\ i # j
  /\ reqs[i].msg.type \in WriteTypes /\ reqs[j].msg.type \in WriteTypes
  /\ reqs[i].pc = "done" /\ reqs[j].pc = "done"
  /\ reqs[i].overlap /\ reqs[j].overlap
  /\ replies[i][1].success /\ replies[j][1].success
  /\ replies[i][1].data[1].id # replies[j][1].data[1].id
  /\ reqs[i].wstore = reqs[j].wstore
  /\ \A k \in 1..Len(reqs) : k \notin {i, j} => reqs[k].wstore = "none"

\* C35: when two overlapping writes to different notes have both replied
\* success, the store that took them holds both notes with their written
\* content, the local fallback store included
C35_DistinctWritesKept ==
  \A i, j \in 1..Len(reqs) :
    OverlappingWrites(i, j)
    => /\ Returns(StoreOf(reqs[i].wstore), replies[i][1].data[1])
       /\ Returns(StoreOf(reqs[j].wstore), replies[j][1].data[1])

-----------------------------------------------------------------------------
(* The affordance elements in the page *)

MaxTooltips == 2

\* the callback of the 200 ms timer of hideSelectionTooltip: it removes the
\* element that this.selectionTooltip refers to when it runs, if that element
\* is in the page
removeTimeout(a) ==
  [a EXCEPT !.dom.timers = @ - 1,
            !.dom.attached = IF a.selectionTooltip THEN FALSE ELSE @]

RemoveTimeout ==
  /\ agent.dom.timers > 0
  /\ agent' = [removeTimeout(agent) EXCEPT !.event = [type |-> "removeTimeout"]]
  /\ UNCHANGED <<coordVars, escVars, web>>

InitDom ==
  /\ remote = <<>>
  /\ local = <<>>
  /\ reqs = <<>>
  /\ replies = <<>>
  /\ clock = 0
  /\ nextId = 1
  /\ wcount = 0
  /\ escIn = <<>>
  /\ escOut = <<>>
  /\ escDone = FALSE
  /\ install = Installed
  /\ agent = [Loaded EXCEPT !.dom.followed = TRUE]
  /\ web = Mounted

NextDom ==
  \/ \E sel \in Selections : Select(sel)
  \/ SelectionChange
  \/ (agent.dom.created < MaxTooltips /\ ShowTimeout)
  \/ Scroll
  \/ KeyEscape
  \/ HideTimeout
  \/ RemoveTimeout

SpecDom == InitDom /\ [][NextDom]_vars

\* C36: the agent's affordance element is attached whenever the agent is
\* Visible, and once no removal timer is pending no hidden affordance element
\* is left in the page, so that at most one affordance element is attached
C36_RemovalHitsHiddenElement ==
  /\ Visible => agent.dom.attached
  /\ agent.dom.timers = 0 => agent.dom.leftover = 0

-----------------------------------------------------------------------------
(* Settings updates that reach the agent: handleUrlPatternsUpdate *)

MaxListeners == 3

\* cleanup: hides the affordance and the quick note dialog; it removes no
\* listener
cleanup(a) == [hideSelectionTooltip(a) EXCEPT !.quickModal = FALSE]

\* the continuation of checkUrlEnabled in handleUrlPatternsUpdate
rechecked(a) ==
  IF ~a.isEnabled /\ a.isInitialized THEN [cleanup(a) EXCEPT !.isInitialized = FALSE]
  ELSE IF a.isEnabled /\ ~a.isInitialized THEN init(a)
  ELSE a

\* the settings change whether this url is excluded and the agent is told:
\* NOTEZ_URL_PATTERNS_UPDATED reaches the runtime message listener, which
\* calls handleUrlPatternsUpdate up to the await in checkUrlEnabled
UrlPatternsUpdated(excl) ==
  /\ agent.listeners > 0
  /\ agent.listeners < MaxListeners
  /\ agent.pc = "running"
  /\ excl # agent.excluded
  /\ agent' = [agent EXCEPT !.excluded = excl, !.pc = "recheck",
                            !.event = [type |-> "urlPatterns"]]
  /\ UNCHANGED <<coordVars, escVars, web>>

\* the coordinator answers CHECK_URL_ENABLED from the stored patterns:
\* enabled exactly when the url is not excluded
RecheckReply ==
  /\ agent.pc = "recheck"
  /\ agent' = [rechecked([agent EXCEPT !.isEnabled = ~agent.excluded])
                 EXCEPT !.pc = "running", !.event = [type |-> "recheck"]]
  /\ UNCHANGED <<coordVars, escVars, web>>

NextToggle ==
  \/ \E excl \in BOOLEAN : UrlPatternsUpdated(excl)
  \/ RecheckReply
  \/ \E sel \in Selections : Select(sel)
  \/ SelectionChange
  \/ ShowTimeout
  \/ HideTimeout
  \/ Scroll
  \/ KeyEscape
  \/ ShowQuickNoteModal

SpecToggle == Init /\ [][NextToggle]_vars

-----------------------------------------------------------------------------
(* Dispatches in progress *)

\* C38: an agent has at most one ADD_SELECTION_TO_PAGE_NOTE dispatch awaiting
\* its reply at any time
C38_OneDispatchPending == agent.awaiting <= 1

-----------------------------------------------------------------------------
(* One outcome for each dispatch *)

\* the step changes the outcome of call k
OutcomeSet(k) ==
  /\ k \in 1..Len(agent.calls)
  /\ agent'.calls[k].outcome # agent.calls[k].outcome

\* the step is the delivery of a reply after the timeout of its call
LateReplyStep ==
  /\ agent' # agent
  /\ agent'.event.type = "lateReply"

\* the agent's fields other than the record of its calls and of its last event
AgentState(a) == [a EXCEPT !.calls = <<>>, !.event = [type |-> "init"]]

\* C39: each capture dispatch reports one outcome: a call's outcome is set
\* once, from awaiting to added, failed, timeout or unreachable, together
\* with the notification of that outcome; a reply delivered after the timeout
\* changes neither the notification nor any other part of the agent's state,
\* nor the outcome of any call
C39_OneOutcomePerDispatch ==
  [][/\ \A k \in 1..Len(agent.calls) :
          OutcomeSet(k) => /\ agent.calls[k].outcome = "awaiting"
                           /\ agent'.calls[k].outcome \in Outcomes
                           /\ agent'.notification = agent'.calls[k].outcome
     /\ LateReplyStep => /\ AgentState(agent') = AgentState(agent)
                         /\ \A k \in 1..Len(agent.calls) : ~OutcomeSet(k)]_vars

\* the reply to a call that timed out has been delivered
C39_Witness ==
  \E k \in 1..Len(agent.calls) :
    agent.calls[k].outcome = "timeout" /\ agent.calls[k].late

-----------------------------------------------------------------------------
(* The web app: useNotesStorage over NotesAPI and localStorage *)

MaxCreates == 2

\* what the user has typed into the title field of the new note page
WebTitles == {<<" ">>, <<"T">>}

\* NotesAPI.createNote: noteData for a note without id and timestamps
noteData(title, content, now, fresh) ==
  [title |-> title, content |-> content, tags |-> <<>>, id |-> fresh,
   createdAt |-> now, updatedAt |-> now]

\* createNoteFallback: newNote, with an id of its own
fallbackNote(title, content, now, fresh) ==
  [id |-> fresh, title |-> title, content |-> content, createdAt |-> now,
   updatedAt |-> now, tags |-> <<>>]

\* useNotesAPI.getNote: notes.find(note => note.id === id), <<>> for undefined
getNote(w, id) ==
  IF id \in Ids(w.notes) THEN <<w.notes[IndexOf(w.notes, id)]>> ELSE <<>>

WebStep(w) ==
  /\ web' = w
  /\ UNCHANGED <<local, reqs, replies, clock, wcount, escVars, install, agent>>

\* refreshNotes: loadNotes up to its fetch
RefreshNotes ==
  /\ web.load = "idle"
  /\ WebStep([web EXCEPT !.load = "fetching", !.error = FALSE,
                         !.since = Len(web.created), !.event = "refresh"])
  /\ UNCHANGED <<remote, nextId>>

\* fetchNotes: the remote store answers with its notes, sorted
FetchNotesOk ==
  /\ web.load = "fetching"
  /\ WebStep([web EXCEPT !.load = "json", !.fetched = SortDesc(remote),
                         !.event = "fetched"])
  /\ UNCHANGED <<remote, nextId>>

\* fetchNotes throws: loadNotes sets the error and keeps the notes it has
FetchNotesFail ==
  /\ web.load = "fetching"
  /\ WebStep([web EXCEPT !.load = "idle", !.error = TRUE, !.event = "loaded"])
  /\ UNCHANGED <<remote, nextId>>

\* loadNotes: setNotes(fetchedNotes)
SetNotes ==
  /\ web.load = "json"
  /\ WebStep([web EXCEPT !.load = "idle", !.notes = web.fetched, !.fetched = <<>>,
                         !.event = "loaded"])
  /\ UNCHANGED <<remote, nextId>>

\* NewNote.handleSave: an empty title is refused; otherwise createNote of
\* useNotesStorage, api.createNote and NotesAPI.createNote up to the POST
HandleSave(title) ==
  /\ web.create = "idle"
  /\ web.saves < MaxCreates
  /\ IF trim(title) = <<>>
     THEN /\ ~web.alert
          /\ WebStep([web EXCEPT !.alert = TRUE, !.event = "alert"])
          /\ UNCHANGED <<remote, nextId>>
     ELSE /\ WebStep([web EXCEPT !.create = "posting", !.error = FALSE,
                                 !.saves = @ + 1,
                                 !.draft = <<noteData(trim(title), <<"c">>, clock, nextId)>>,
                                 !.event = "save"])
          /\ nextId' = nextId + 1
          /\ UNCHANGED remote

\* the POST answers 2xx: setNotes(prev => [newNote, ...prev]) and the note is
\* returned
CreatePostOk ==
  /\ web.create = "posting"
  /\ RemoteAccepts("POST", web.draft[1].id)
  /\ remote' = RemoteAfter("POST", web.draft[1])
  /\ WebStep([web EXCEPT !.create = "idle", !.draft = <<>>,
                         !.notes = web.draft \o web.notes,
                         !.created = Append(@, web.draft[1]),
                         !.event = "returned"])
  /\ UNCHANGED nextId

\* the POST fails: api.createNote sets the error and throws, createNoteWrapper
\* falls back to createNoteFallback, which writes localStorage and returns its
\* own note
CreatePostFail ==
  /\ web.create = "posting"
  /\ LET made == fallbackNote(web.draft[1].title, web.draft[1].content, clock, nextId)
     IN WebStep([web EXCEPT !.create = "idle", !.draft = <<>>, !.error = TRUE,
                            !.storage = <<made>> \o @,
                            !.created = Append(@, made),
                            !.event = "returned"])
  /\ nextId' = nextId + 1
  /\ UNCHANGED remote

\* the POST fails and localStorage.setItem throws: createNote throws and
\* handleSave alerts
CreateFallbackFail ==
  /\ web.create = "posting"
  /\ WebStep([web EXCEPT !.create = "idle", !.draft = <<>>, !.error = TRUE,
                         !.alert = TRUE, !.event = "failed"])
  /\ nextId' = nextId + 1
  /\ UNCHANGED remote

NextWeb ==
  \/ RefreshNotes
  \/ FetchNotesOk
  \/ FetchNotesFail
  \/ SetNotes
  \/ \E title \in WebTitles : HandleSave(title)
  \/ CreatePostOk
  \/ CreatePostFail
  \/ CreateFallbackFail
  \/ Tick

SpecWeb == Init /\ [][NextWeb]_vars

\* the step returns a note from createNote
Returned == Len(web'.created) > Len(web.created)

\* the step ends a loadNotes call, by setNotes or by an error
LoadEnds == web.load # "idle" /\ web'.load = "idle"

\* C40: a note returned by createNote is found by getNote of the same hook,
\* and every refreshNotes begun after the return still lists it when it ends,
\* also when the note was written to the localStorage fallback
C40_CreatedNoteReadable ==
  [][/\ Returned
        => getNote(web', web'.created[Len(web'.created)].id)
             = <<web'.created[Len(web'.created)]>>
     /\ LoadEnds
        => \A k \in 1..web.since : web.created[k].id \in Ids(web'.notes)]_vars

====
